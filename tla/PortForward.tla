----------------------------- MODULE PortForward -----------------------------
(***************************************************************************)
(* The port forwarder (portforward/portforward.go, with the gateway        *)
(* clients of pmp.go and the UPnP wrappers behind it).                     *)
(*                                                                         *)
(* A call to the gateway cannot be cancelled: whoever gives up on one      *)
(* leaves a goroutine behind that deals with its outcome when it comes.    *)
(* MapPort and UnmapPort hold f.mu while they wait; a renewal and the      *)
(* goroutines hold it only between their calls.  The steps of this module  *)
(* are the critical sections and the gateway's answers.                    *)
(*                                                                         *)
(* The gateway acts on a request, if at all, before the call for it        *)
(* returns; the exception is a delete that UnmapPort's caller abandoned,   *)
(* which may still arrive later.  When a renewal is due is left open, and  *)
(* so are granted leases.                                                  *)
(***************************************************************************)
EXTENDS Integers, FiniteSets

CONSTANTS
    Protocols,     \* the protocols, in the order of their names
    Ports,
    Mappings,      \* identities of *Mapping
    Ops,           \* identities of goroutines that call the gateway
    Loops,         \* identities of renewLoop goroutines
    None,
    MaxTeardowns   \* bound on calls of UnmapPort

ASSUME ForwardAssumption ==
    /\ IsFiniteSet(Ops) /\ MaxTeardowns \in Nat
    /\ None \notin Mappings \cup Ops \cup Loops \cup {"map", "unmap"}

ProtocolSet == {Protocols[i] : i \in DOMAIN Protocols}
Keys == ProtocolSet \X Ports

VARIABLES
    client,    \* f.client: the kind of client discovery found
    mappings,  \* f.mappings: protocol -> the tracked mapping, or None
    made,      \* the mappings MapPort has made, each with its port
    inflight,  \* f.inflight: calls on a port that are not dealt with yet
    teardowns, \* f.teardowns
    cancel,    \* f.cancel: the loop it would stop, or None
    holder,    \* who keeps f.mu across calls: None, "map" or "unmap"
    mapOp,     \* the add MapPort waits for
    unmapping, \* the protocols UnmapPort has still to visit
    ops,       \* goroutines in a call or about to take f.mu, a partial function
    loops,     \* renewLoop goroutines, a partial function
    stopped,   \* loops whose context is done
    gateway,   \* external: the ports the gateway maps to this host
    stray      \* history: ports a cleanup failed to delete

forwardVars == <<client, mappings, made, inflight, teardowns, cancel, holder, mapOp, unmapping,
                 ops, loops, stopped, gateway, stray>>

\* stage of a goroutine: "adding" and "answered" are an AddPortMapping before and after its
\* return, "cleaning" and "cleaned" a DeletePortMapping of a port nobody tracks, "deleting" a
\* delete whose UnmapPort gave up.
Op == [key : Keys, mapping : Mappings \cup {None}, stage : {"adding", "answered", "cleaning",
       "cleaned", "deleting"}, result : {"none", "ok", "refused", "unknown"}, handled : BOOLEAN]

Loop == [stage : {"waiting", "next", "locking", "renewing"}, todo : SUBSET Mappings,
         now : Mappings \cup {None}, op : Ops \cup {None}, teardowns : Nat]

ForwardTypeOK ==
    /\ client \in {"upnp", "pmp"}
    /\ mappings \in [ProtocolSet -> Mappings \cup {None}]
    /\ DOMAIN made \subseteq Mappings /\ \A m \in DOMAIN made : made[m] \in Keys
    /\ inflight \in [Keys -> Nat]
    /\ teardowns \in Nat
    /\ cancel \in Loops \cup {None}
    /\ holder \in {None, "map", "unmap"} /\ mapOp \in Ops \cup {None}
    /\ unmapping \subseteq ProtocolSet
    /\ DOMAIN ops \subseteq Ops /\ \A i \in DOMAIN ops : ops[i] \in Op
    /\ DOMAIN loops \subseteq Loops /\ \A l \in DOMAIN loops : loops[l] \in Loop
    /\ stopped \subseteq Loops
    /\ gateway \subseteq Keys /\ stray \subseteq Keys

\* Who answers discovery decides the client: PCP before NAT-PMP, asked at once, before UPnP's IGDv2
\* and IGDv1.  Without any there is no Forwarder.
DiscoverPMP(pcp, natpmp) == IF pcp THEN "pcp" ELSE IF natpmp THEN "nat-pmp" ELSE "none"
DiscoverIGD(igd2, igd1) == IF igd2 THEN "upnp-igd2" ELSE IF igd1 THEN "upnp-igd1" ELSE "none"

NewForwarder(pcp, natpmp, igd2, igd1) ==
    IF DiscoverPMP(pcp, natpmp) # "none" THEN DiscoverPMP(pcp, natpmp) ELSE DiscoverIGD(igd2, igd1)

ClientOf(method) == IF method \in {"pcp", "nat-pmp"} THEN "pmp" ELSE "upnp"

ForwardInit ==
    /\ \E pcp, natpmp, igd2, igd1 \in BOOLEAN :
          /\ NewForwarder(pcp, natpmp, igd2, igd1) # "none"
          /\ client = ClientOf(NewForwarder(pcp, natpmp, igd2, igd1))
    /\ mappings = [p \in ProtocolSet |-> None]
    /\ made = [m \in {} |-> 0]
    /\ inflight = [k \in Keys |-> 0]
    /\ teardowns = 0
    /\ cancel = None
    /\ holder = None /\ mapOp = None /\ unmapping = {}
    /\ ops = [i \in {} |-> 0]
    /\ loops = [l \in {} |-> 0]
    /\ stopped = {}
    /\ gateway = {} /\ stray = {}

With(map, x, value) == [y \in DOMAIN map \cup {x} |-> IF y = x THEN value ELSE map[y]]
Dropped(map, x) == [y \in DOMAIN map \ {x} |-> map[y]]

(***************************************************************************)
(* Goroutines and the ports they hold.                                     *)
(***************************************************************************)
Spare == {i \in Ops : i \notin DOMAIN ops /\ \A l \in DOMAIN loops : loops[l].op # i}
NewOp == CHOOSE i \in Spare : TRUE

AddOp(k, m) == [key |-> k, mapping |-> m, stage |-> "adding", result |-> "none",
                handled |-> FALSE]
CleanupOp(k) == [key |-> k, mapping |-> None, stage |-> "cleaning", result |-> "none",
                 handled |-> TRUE]

MayHaveLanded(result) == result \in {"ok", "unknown"}

\* untrackedLocked
Untracked(m) ==
    LET cur == mappings[made[m][1]]
    IN cur # m /\ (cur = None \/ made[cur] # made[m])

Held(k) == [inflight EXCEPT ![k] = @ + 1]

\* releaseLocked
Released(k) == [inflight EXCEPT ![k] = IF @ > 0 THEN @ - 1 ELSE 0]

(***************************************************************************)
(* The gateway.  An outcome of AddPortMapping is what it returns and what  *)
(* became of the port: "map", "keep" as it was, "drop" or, if an undo      *)
(* failed, "stray".                                                        *)
(***************************************************************************)

\* A UPnP error that is no SOAP fault leaves it open whether the gateway acted.
UpnpOutcomes == {<<"ok", "map">>, <<"refused", "keep">>, <<"unknown", "map">>, <<"unknown", "keep">>}

\* What a NAT-PMP or PCP request meets: a grant, a grant on another port or with too short a lease,
\* a result code, or, once it was sent, no answer.
PmpAnswers == {"granted", "unsuitable", "refused", "lost"}

\* An unsuitable grant is deleted again and refused; a lost one of a new mapping is deleted too.
\* That delete can fail.
PmpOutcomes ==
    UNION {CASE answer = "granted" -> {<<"ok", "map">>}
             [] answer = "unsuitable" -> {<<"refused", "drop">>, <<"refused", "stray">>}
             [] answer = "refused" -> {<<"refused", "keep">>}
             [] answer = "lost" -> {<<"unknown", "map">>, <<"unknown", "keep">>}
           : answer \in PmpAnswers}

Outcomes == IF client = "pmp" THEN PmpOutcomes ELSE UpnpOutcomes

GatewayAnswersAdd(i, outcome) ==
    /\ i \in DOMAIN ops /\ ops[i].stage = "adding"
    /\ ops' = [ops EXCEPT ![i].stage = "answered", ![i].result = outcome[1]]
    /\ LET k == ops[i].key
       IN /\ gateway' = CASE outcome[2] \in {"map", "stray"} -> gateway \cup {k}
                          [] outcome[2] = "drop" -> gateway \ {k}
                          [] OTHER -> gateway
          /\ stray' = IF outcome[2] = "stray" THEN stray \cup {k} ELSE stray
    /\ UNCHANGED <<client, mappings, made, inflight, teardowns, cancel, holder, mapOp, unmapping,
                   loops, stopped>>

\* DeletePortMapping from a cleanup: best effort, a failure is only logged (deleteUntracked).
GatewayAnswersCleanup(i) ==
    /\ i \in DOMAIN ops /\ ops[i].stage = "cleaning"
    /\ ops' = [ops EXCEPT ![i].stage = "cleaned"]
    /\ LET k == ops[i].key
       IN \/ gateway' = gateway \ {k} /\ stray' = stray \ {k}
          \/ UNCHANGED gateway /\ stray' = stray \cup {k}
    /\ UNCHANGED <<client, mappings, made, inflight, teardowns, cancel, holder, mapOp, unmapping,
                   loops, stopped>>

\* A delete that UnmapPort no longer waits for arrives, or fails.
AbandonedDeleteEnds(i) ==
    /\ i \in DOMAIN ops /\ ops[i].stage = "deleting"
    /\ ops' = Dropped(ops, i)
    /\ gateway' \in {gateway, gateway \ {ops[i].key}}
    /\ UNCHANGED <<client, mappings, made, inflight, teardowns, cancel, holder, mapOp, unmapping,
                   loops, stopped, stray>>

(***************************************************************************)
(* addLocked's goroutine and removeLocked's, once their calls returned.    *)
(***************************************************************************)
\* Nobody claimed the outcome: delete what the add may have made unless it is tracked.
AddResolves(i) ==
    /\ holder = None
    /\ i \in DOMAIN ops /\ ops[i].stage = "answered" /\ ~ops[i].handled
    /\ LET gone == MayHaveLanded(ops[i].result) /\ Untracked(ops[i].mapping)
       IN ops' = [ops EXCEPT ![i].handled = TRUE,
                             ![i].stage = IF gone THEN "cleaning" ELSE "cleaned"]
    /\ UNCHANGED <<client, mappings, made, inflight, teardowns, cancel, holder, mapOp, unmapping,
                   loops, stopped, gateway, stray>>

CleanupEnds_KeepsHold(i) ==
    /\ holder = None
    /\ i \in DOMAIN ops /\ ops[i].stage = "cleaned"
    /\ ops' = Dropped(ops, i)
    /\ UNCHANGED <<client, mappings, made, inflight, teardowns, cancel, holder, mapOp, unmapping,
                   loops, stopped, gateway, stray>>

CleanupEnds(i) ==
    /\ holder = None
    /\ i \in DOMAIN ops /\ ops[i].stage = "cleaned"
    /\ inflight' = Released(ops[i].key)
    /\ ops' = Dropped(ops, i)
    /\ UNCHANGED <<client, mappings, made, teardowns, cancel, holder, mapOp, unmapping, loops,
                   stopped, gateway, stray>>

(***************************************************************************)
(* MapPort.                                                                *)
(***************************************************************************)
MapPort_WhileHeld(p, port) ==
    /\ holder = None
    /\ mappings[p] = None
    /\ Spare # {}
    /\ Mappings \ DOMAIN made # {}
    /\ LET m == CHOOSE n \in Mappings : n \notin DOMAIN made
       IN /\ made' = With(made, m, <<p, port>>)
          /\ ops' = With(ops, NewOp, AddOp(<<p, port>>, m))
    /\ mapOp' = NewOp
    /\ inflight' = Held(<<p, port>>)
    /\ holder' = "map"
    /\ UNCHANGED <<client, mappings, teardowns, cancel, unmapping, loops, stopped, gateway, stray>>

\* Up to the wait.  A protocol that is mapped, or a port with calls in flight, is refused.
MapPort(p, port) ==
    /\ holder = None
    /\ mappings[p] = None
    /\ inflight[<<p, port>>] = 0
    /\ Spare # {}
    /\ Mappings \ DOMAIN made # {}
    /\ LET m == CHOOSE n \in Mappings : n \notin DOMAIN made
       IN /\ made' = With(made, m, <<p, port>>)
          /\ ops' = With(ops, NewOp, AddOp(<<p, port>>, m))
    /\ mapOp' = NewOp
    /\ inflight' = Held(<<p, port>>)
    /\ holder' = "map"
    /\ UNCHANGED <<client, mappings, teardowns, cancel, unmapping, loops, stopped, gateway, stray>>

\* The caller gave up or addCallTimeout passed: the goroutine deals with the outcome.
MapGivesUp ==
    /\ holder = "map"
    /\ holder' = None
    /\ mapOp' = None
    /\ UNCHANGED <<client, mappings, made, inflight, teardowns, cancel, unmapping, ops, loops,
                   stopped, gateway, stray>>

\* The result came in time and MapPort claims it.  What may have landed and is not to be tracked,
\* because the caller has just given up or the outcome is unknown, is removed: the claimed
\* goroutine ends and removeLocked's takes its place, with the port held throughout.
MapReturns(gaveUp) ==
    /\ holder = "map" /\ ops[mapOp].stage = "answered"
    /\ LET m == ops[mapOp].mapping
           k == ops[mapOp].key
           result == ops[mapOp].result
           remove == MayHaveLanded(result) /\ (gaveUp \/ result = "unknown")
       IN /\ IF remove
             THEN ops' = [ops EXCEPT ![mapOp] = CleanupOp(k)] /\ UNCHANGED inflight
             ELSE ops' = Dropped(ops, mapOp) /\ inflight' = Released(k)
          /\ IF result = "ok" /\ ~gaveUp
             THEN mappings' = [mappings EXCEPT ![k[1]] = m] /\ stray' = stray \ {k}
             ELSE UNCHANGED <<mappings, stray>>
    /\ holder' = None
    /\ mapOp' = None
    /\ UNCHANGED <<client, made, teardowns, cancel, unmapping, loops, stopped, gateway>>

(***************************************************************************)
(* UnmapPort.                                                              *)
(***************************************************************************)
Active == {p \in ProtocolSet : mappings[p] # None}

\* activeMappings sorts by protocol: what is left is visited from the first one on.
Position(p) == CHOOSE i \in DOMAIN Protocols : Protocols[i] = p
ComesFirst(p, S) == \A q \in S : Position(p) <= Position(q)

UnmapPort ==
    /\ holder = None
    /\ teardowns < MaxTeardowns
    /\ stopped' = stopped \cup ({cancel} \ {None})
    /\ cancel' = None
    /\ teardowns' = teardowns + 1
    /\ unmapping' = Active
    /\ holder' = "unmap"
    /\ UNCHANGED <<client, mappings, made, inflight, mapOp, ops, loops, gateway, stray>>

\* One mapping's delete: it succeeds and the mapping is forgotten; it fails and the mapping stays;
\* or the caller's context ends, before the call or during it.
UnmapOne(p, k) ==
    \/ /\ mappings' = [mappings EXCEPT ![p] = None]
       /\ gateway' = gateway \ {k}
       /\ stray' = stray \ {k}
       /\ UNCHANGED ops
    \/ /\ gateway' \in {gateway, gateway \ {k}}
       /\ UNCHANGED <<mappings, ops, stray>>
    \/ /\ Spare # {}
       /\ ops' = With(ops, NewOp, [CleanupOp(k) EXCEPT !.stage = "deleting"])
       /\ UNCHANGED <<mappings, gateway, stray>>

UnmapDeletes ==
    /\ holder = "unmap"
    /\ \E p \in unmapping :
          /\ ComesFirst(p, unmapping)
          /\ UnmapOne(p, made[mappings[p]])
          /\ unmapping' = unmapping \ {p}
    /\ UNCHANGED <<client, made, inflight, teardowns, cancel, holder, mapOp, loops, stopped>>

UnmapReturns ==
    /\ holder = "unmap" /\ unmapping = {}
    /\ holder' = None
    /\ UNCHANGED <<client, mappings, made, inflight, teardowns, cancel, mapOp, unmapping, ops,
                   loops, stopped, gateway, stray>>

(***************************************************************************)
(* Renewal.                                                                *)
(***************************************************************************)
StartRenewal ==
    /\ holder = None
    /\ cancel = None
    /\ Active # {}
    /\ Loops \ (DOMAIN loops \cup stopped) # {}
    /\ LET l == CHOOSE n \in Loops : n \notin DOMAIN loops \cup stopped
       IN /\ cancel' = l
          /\ loops' = With(loops, l, [stage |-> "waiting", todo |-> {}, now |-> None,
                                      op |-> None, teardowns |-> 0])
    /\ UNCHANGED <<client, mappings, made, inflight, teardowns, holder, mapOp, unmapping, ops,
                   stopped, gateway, stray>>

\* The context StartRenewal was given ends.
SessionEnds(l) ==
    /\ l \in DOMAIN loops \ stopped
    /\ stopped' = stopped \cup {l}
    /\ UNCHANGED <<client, mappings, made, inflight, teardowns, cancel, holder, mapOp, unmapping,
                   ops, loops, gateway, stray>>

\* A renewal is due: the loop notes the mappings and teardowns together, or ends without any.
RenewalDue(l) ==
    /\ holder = None
    /\ l \in DOMAIN loops \ stopped /\ loops[l].stage = "waiting"
    /\ loops' = IF Active = {} THEN Dropped(loops, l)
                ELSE [loops EXCEPT ![l].stage = "next", ![l].teardowns = teardowns,
                                   ![l].todo = {mappings[p] : p \in Active}]
    /\ UNCHANGED <<client, mappings, made, inflight, teardowns, cancel, holder, mapOp, unmapping,
                   ops, stopped, gateway, stray>>

\* The loop looks at its context: while it waits, and before each mapping.
LoopChecksContext(l) ==
    /\ l \in DOMAIN loops /\ loops[l].stage \in {"waiting", "next"}
    /\ \/ l \in stopped /\ loops' = Dropped(loops, l)
       \/ /\ l \notin stopped /\ loops[l].stage = "next"
          /\ loops' = [loops EXCEPT ![l].stage = IF loops[l].todo = {} THEN "waiting"
                                                 ELSE "locking"]
    /\ UNCHANGED <<client, mappings, made, inflight, teardowns, cancel, holder, mapOp, unmapping,
                   ops, stopped, gateway, stray>>

\* renew, to its wait: a mapping that is no longer tracked ends the loop.
RenewAdds(l) ==
    /\ holder = None
    /\ l \in DOMAIN loops /\ loops[l].stage = "locking"
    /\ \E m \in loops[l].todo :
          LET k == made[m]
          IN /\ ComesFirst(k[1], {made[n][1] : n \in loops[l].todo})
             /\ \/ /\ mappings[k[1]] # m
                   /\ loops' = Dropped(loops, l)
                   /\ UNCHANGED <<ops, inflight>>
                \/ /\ mappings[k[1]] = m /\ Spare # {}
                   /\ ops' = With(ops, NewOp, AddOp(k, m))
                   /\ inflight' = Held(k)
                   /\ loops' = [loops EXCEPT ![l].stage = "renewing", ![l].op = NewOp,
                                             ![l].now = m, ![l].todo = @ \ {m}]
    /\ UNCHANGED <<client, mappings, made, teardowns, cancel, holder, mapOp, unmapping, stopped,
                   gateway, stray>>

\* renew, after its wait: it claims the result it received, unless the goroutine was faster, and
\* removes what it may have re-added; a teardown since the snapshot ends the loop.
RenewReturns(l, claims) ==
    /\ holder = None
    /\ l \in DOMAIN loops /\ loops[l].stage = "renewing"
    /\ LET m == loops[l].now
           k == made[m]
           i == loops[l].op
       IN IF claims
          THEN /\ i \in DOMAIN ops /\ ops[i].stage = "answered" /\ ~ops[i].handled
               /\ IF MayHaveLanded(ops[i].result) /\ Untracked(m)
                  THEN ops' = [ops EXCEPT ![i] = CleanupOp(k)] /\ UNCHANGED inflight
                  ELSE ops' = Dropped(ops, i) /\ inflight' = Released(k)
          ELSE UNCHANGED <<ops, inflight>>
    /\ loops' = IF teardowns # loops[l].teardowns THEN Dropped(loops, l)
                ELSE [loops EXCEPT ![l].stage = "next", ![l].op = None, ![l].now = None]
    /\ UNCHANGED <<client, mappings, made, teardowns, cancel, holder, mapOp, unmapping, stopped,
                   gateway, stray>>

(***************************************************************************)
(* When a mapping is renewed and retried, in milliseconds.                 *)
(***************************************************************************)
Lesser(a, b) == IF a < b THEN a ELSE b
Greater(a, b) == IF a < b THEN b ELSE a

BaseRenewInterval(requested) == Greater(requested \div 2, 60000)

RenewPeriod(lease, interval) == Lesser(interval, Greater(lease \div 2, 1000))

RenewRetryDelay(lease) == Lesser(Greater(lease \div 8, 1000), 60000)

(***************************************************************************)
(* The specification.                                                      *)
(***************************************************************************)
GatewayAnswers ==
    \E i \in Ops :
       \/ \E outcome \in Outcomes : GatewayAnswersAdd(i, outcome)
       \/ GatewayAnswersCleanup(i)
       \/ AbandonedDeleteEnds(i)

Caller ==
    \/ \E p \in ProtocolSet, port \in Ports : MapPort(p, port)
    \/ MapGivesUp
    \/ \E gaveUp \in BOOLEAN : MapReturns(gaveUp)
    \/ UnmapPort
    \/ UnmapDeletes
    \/ UnmapReturns
    \/ StartRenewal

Renewer ==
    \E l \in Loops :
       \/ SessionEnds(l)
       \/ RenewalDue(l)
       \/ LoopChecksContext(l)
       \/ RenewAdds(l)
       \/ \E claims \in BOOLEAN : RenewReturns(l, claims)

ForwardNext ==
    \/ Caller
    \/ Renewer
    \/ GatewayAnswers
    \/ \E i \in Ops : AddResolves(i) \/ CleanupEnds(i)

ForwardSpec == ForwardInit /\ [][ForwardNext]_forwardVars

\* Every client bounds its calls, so a call returns; MapPort and UnmapPort do too; and a goroutine
\* that waits for f.mu gets it, since a sync.Mutex hands itself to the one waiting longest.
ForwardFairness ==
    /\ WF_forwardVars(GatewayAnswers)
    /\ WF_forwardVars(MapGivesUp \/ MapReturns(FALSE))
    /\ WF_forwardVars(UnmapDeletes \/ UnmapReturns)
    /\ \A i \in Ops : SF_forwardVars(AddResolves(i) \/ CleanupEnds(i))

(***************************************************************************)
(* Properties.                                                             *)
(***************************************************************************)
TrackedKeys == {made[mappings[p]] : p \in {q \in ProtocolSet : mappings[q] # None}}
HoldersOf(k) == {i \in DOMAIN ops : ops[i].key = k /\ ops[i].stage # "deleting"}

\* Nothing is left behind on the gateway: a port it maps to this host is tracked, so UnmapPort
\* removes it; or a call on it is still to be dealt with; or its cleanup was tried and failed,
\* which only the lease's end undoes.  A renewal may land after UnmapPort deleted its mapping, an
\* add after MapPort gave up on it.
NothingLeftBehind ==
    \A k \in gateway : k \in TrackedKeys \/ inflight[k] > 0 \/ k \in stray

\* "a stale add's cleanup can't remove a new mapping of the same port" (the comment on inflight):
\* while a cleanup may delete a port, no mapping of that port is tracked.
CleanupSparesTracked ==
    \A i \in DOMAIN ops : ops[i].stage = "cleaning" => ops[i].key \notin TrackedKeys

\* inflight counts exactly the goroutines that have still to deal with a call on the port, whoever
\* of the caller and the goroutine deals with its outcome first.
InflightIsExact == \A k \in Keys : inflight[k] = Cardinality(HoldersOf(k))

\* A port nobody tracks any more becomes available again: MapPort refuses it only until the last
\* call on it is dealt with.
PortIsFreed ==
    \A k \in Keys : (inflight[k] > 0 /\ k \notin TrackedKeys)
                       ~> (inflight[k] = 0 \/ k \in TrackedKeys)

\* Every port the gateway maps here is accounted for, and no call that comes late harms a mapping
\* made since.
PortsAreAccounted ==
    ForwardTypeOK /\ NothingLeftBehind /\ CleanupSparesTracked /\ InflightIsExact
=============================================================================
