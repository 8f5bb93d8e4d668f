-------------------------------- MODULE Node --------------------------------
(***************************************************************************)
(* A volunteer node (node/node.go, node/state.go): it loads or creates its *)
(* identity, has the router forward its port, registers a route with       *)
(* lantern-cloud, runs a box with the credentials it got, and rotates them *)
(* until it is told to stop.  One step per call that can fail or that a    *)
(* crash can come between.                                                 *)
(*                                                                         *)
(* lantern-cloud, the file system, the router and the other programs on    *)
(* the host are external.  A request takes effect, if at all, before the   *)
(* node gives up on it.  Backoff and heartbeat intervals are left out.     *)
(***************************************************************************)
EXTENDS Naturals

CONSTANTS
    RouteIds,
    Nobody,        \* no route, no device
    MaxCreds,      \* bound on the registrations lantern-cloud accepts
    MaxDevices     \* bound on the identities a host makes up

ASSUME NodeAssumption == MaxCreds \in Nat /\ MaxDevices \in Nat /\ Nobody \notin RouteIds

VARIABLES
    pc,            \* where run, start, serve and rotate are
    stopping,      \* ctx is done
    device,        \* st.DeviceID, 0 before loadState
    devices,       \* identities made up so far
    file,          \* the state file: Absent, Partial or a device
    synced,        \* the file's contents have reached the disk
    dirty,         \* its name has not
    undurable,     \* history: the directory was not synced after a rename
    knownAs,       \* history: identities lantern-cloud has registered
    routes,        \* external: the credentials each route advertises, 0 for no route
    issued,        \* the newest credentials
    session,       \* s.routeID and its credentials
    response,      \* the registration being launched
    rotating,      \* rotate called launch, not start
    inUse,         \* the error in hand is errPortInUse
    box,           \* the credentials the running box serves, 0 for none
    forgotten,     \* history: routes left at lantern-cloud by a call that failed
    mapped,        \* external: the router forwards the port
    taken          \* external: another program listens on the port

stateVars == <<device, devices, file, synced, dirty, undurable>>
cloudVars == <<knownAs, routes, issued, forgotten>>
hostVars == <<mapped, taken>>
nodeVars == <<pc, stopping, stateVars, cloudVars, session, response, rotating, inUse, box, hostVars>>

Absent == 0
Partial == MaxDevices + 1

NoRoute == [route |-> Nobody, creds |-> 0]
Registration == [route : RouteIds \cup {Nobody}, creds : 0..MaxCreds]

NodeTypeOK ==
    /\ pc \in {"down", "load", "write", "sync", "rename", "syncDir", "check", "map", "recheck",
               "register", "launch", "verify", "serve", "rotate", "dropOld", "undo", "leave",
               "sleep", "unmap"}
    /\ device \in 0..MaxDevices /\ devices \in 0..MaxDevices
    /\ file \in {Absent, Partial} \cup 1..MaxDevices
    /\ {stopping, synced, dirty, undurable, rotating, inUse, mapped, taken} \subseteq BOOLEAN
    /\ knownAs \subseteq 1..MaxDevices
    /\ routes \in [RouteIds -> 0..MaxCreds] /\ issued \in 0..MaxCreds
    /\ session \in Registration /\ (pc \in {"serve", "leave"} => session # NoRoute)
    /\ response \in Registration /\ (pc \in {"launch", "verify", "undo"} => response # NoRoute)
    /\ box \in 0..MaxCreds
    /\ forgotten \subseteq RouteIds

NodeInit ==
    /\ pc = "down" /\ stopping = FALSE
    /\ device = 0 /\ devices = 0
    /\ file = Absent /\ synced = FALSE /\ dirty = FALSE /\ undurable = FALSE
    /\ knownAs = {} /\ routes = [r \in RouteIds |-> 0] /\ issued = 0 /\ forgotten = {}
    /\ session = NoRoute /\ response = NoRoute
    /\ rotating = FALSE /\ inUse = FALSE
    /\ box = 0
    /\ mapped = FALSE /\ taken = FALSE

\* Run, on a host where the node is not running; the lock on the state directory keeps a second
\* one out.
RunStarts ==
    /\ pc = "down"
    /\ file = Absent => devices < MaxDevices
    /\ pc' = "load"
    /\ stopping' = FALSE
    /\ UNCHANGED <<stateVars, cloudVars, session, response, rotating, inUse, box, hostVars>>

(***************************************************************************)
(* loadState.                                                              *)
(***************************************************************************)
LoadState ==
    /\ pc = "load"
    /\ \/ /\ file \notin {Absent, Partial}
          /\ device' = file
          /\ pc' = "check"
          /\ UNCHANGED devices
       \/ /\ file = Partial
          /\ pc' = "down"
          /\ UNCHANGED <<device, devices>>
       \/ /\ file = Absent
          /\ devices' = devices + 1
          /\ device' = devices'
          /\ pc' = "write"
    /\ UNCHANGED <<stopping, file, synced, dirty, undurable, cloudVars, session, response, rotating,
                   inUse, box, hostVars>>

\* A step of writing the temporary file fails, which removes it and ends Run.
SaveFails ==
    /\ pc \in {"write", "sync", "rename"}
    /\ pc' = "down"
    /\ UNCHANGED <<stopping, stateVars, cloudVars, session, response, rotating, inUse, box, hostVars>>

WriteState ==
    /\ pc = "write"
    /\ synced' = FALSE
    /\ pc' = "sync"
    /\ UNCHANGED <<stopping, device, devices, file, dirty, undurable, cloudVars, session, response,
                   rotating, inUse, box, hostVars>>

SyncState_Skipped ==
    /\ pc = "sync"
    /\ pc' = "rename"
    /\ UNCHANGED <<stopping, stateVars, cloudVars, session, response, rotating, inUse, box, hostVars>>

SyncState ==
    /\ pc = "sync"
    /\ synced' = TRUE
    /\ pc' = "rename"
    /\ UNCHANGED <<stopping, device, devices, file, dirty, undurable, cloudVars, session, response,
                   rotating, inUse, box, hostVars>>

RenameState ==
    /\ pc = "rename"
    /\ file' = device
    /\ dirty' = TRUE
    /\ pc' = "syncDir"
    /\ UNCHANGED <<stopping, device, devices, synced, undurable, cloudVars, session, response,
                   rotating, inUse, box, hostVars>>

\* Not every platform can sync a directory; a failure is ignored.
SyncDir ==
    /\ pc = "syncDir"
    /\ \/ dirty' = FALSE /\ UNCHANGED undurable
       \/ undurable' = TRUE /\ UNCHANGED dirty
    /\ pc' = "check"
    /\ UNCHANGED <<stopping, device, devices, file, synced, cloudVars, session, response, rotating,
                   inUse, box, hostVars>>

(***************************************************************************)
(* run: the port, then sessions until the node stops.                      *)
(***************************************************************************)
CheckPort ==
    /\ pc = "check"
    /\ pc' = IF taken THEN "down" ELSE "map"
    /\ UNCHANGED <<stopping, stateVars, cloudVars, session, response, rotating, inUse, box, hostVars>>

\* mapPort: without a mapping clients reach the node directly; with one the port is checked again.
MapRouterPort ==
    /\ pc = "map"
    /\ \/ mapped' = TRUE /\ pc' = "recheck"
       \/ pc' = "register" /\ UNCHANGED mapped
    /\ UNCHANGED <<stopping, stateVars, cloudVars, session, response, rotating, inUse, box, taken>>

RecheckPort ==
    /\ pc = "recheck"
    /\ pc' = IF taken THEN "unmap" ELSE "register"
    /\ UNCHANGED <<stopping, stateVars, cloudVars, session, response, rotating, inUse, box, hostVars>>

\* Registering, from start or from rotate.  lantern-cloud normally returns the route it has for
\* the node's address, but may return another.  rotate then closes the box, and drops a route that
\* is no longer the node's.  Once ctx is done no answer is taken.
RegisterSucceeds(r) ==
    /\ pc \in {"register", "rotate"} /\ ~stopping /\ issued < MaxCreds
    /\ issued' = issued + 1
    /\ routes' = [routes EXCEPT ![r] = issued']
    /\ response' = [route |-> r, creds |-> issued']
    /\ knownAs' = knownAs \cup {device}
    /\ forgotten' = forgotten \ {r}
    /\ rotating' = (pc = "rotate")
    /\ box' = 0
    /\ pc' = IF pc = "rotate" /\ session.route # r THEN "dropOld" ELSE "launch"
    /\ session' = IF pc = "rotate" /\ session.route = r THEN NoRoute ELSE session
    /\ UNCHANGED <<stopping, stateVars, inUse, hostVars>>

\* A 4xx: start fails, a rotation keeps the session.
RegisterRefused ==
    /\ pc \in {"register", "rotate"} /\ ~stopping
    /\ pc' = IF pc = "rotate" THEN "serve" ELSE "sleep"
    /\ UNCHANGED <<stopping, stateVars, cloudVars, session, response, rotating, inUse, box, hostVars>>

\* A 5xx, a lost connection or a timeout: lantern-cloud may have registered the route all the same.
\* A rotation then closes the box and deregisters the route it knows of.
RegisterUnanswered(r) ==
    /\ pc \in {"register", "rotate"}
    /\ \/ UNCHANGED cloudVars
       \/ /\ issued < MaxCreds
          /\ issued' = issued + 1
          /\ routes' = [routes EXCEPT ![r] = issued']
          /\ knownAs' = knownAs \cup {device}
          /\ forgotten' = IF pc = "rotate" /\ session.route = r THEN forgotten ELSE forgotten \cup {r}
    /\ IF pc = "rotate"
       THEN pc' = "dropOld" /\ rotating' = TRUE /\ box' = 0 /\ response' = NoRoute
       ELSE pc' = (IF stopping THEN "unmap" ELSE "sleep") /\ UNCHANGED <<rotating, box, response>>
    /\ UNCHANGED <<stopping, stateVars, session, inUse, hostVars>>

\* launch: the port is checked, then a box starts with the new credentials, unless its config is
\* bad or it fails.
Launch ==
    /\ pc = "launch"
    /\ \/ ~taken /\ box' = response.creds /\ pc' = "verify" /\ inUse' = FALSE
       \/ pc' = "undo" /\ inUse' = taken /\ UNCHANGED box
    /\ UNCHANGED <<stopping, stateVars, cloudVars, session, response, rotating, hostVars>>

VerifySucceeds ==
    /\ pc = "verify" /\ ~stopping
    /\ session' = response
    /\ response' = NoRoute
    /\ pc' = "serve"
    /\ UNCHANGED <<stopping, stateVars, cloudVars, rotating, inUse, box, hostVars>>

VerifyFails ==
    /\ pc = "verify"
    /\ box' = 0
    /\ pc' = "undo"
    /\ UNCHANGED <<stopping, stateVars, cloudVars, session, response, rotating, inUse, hostVars>>

\* deregister: a failure is only logged, for the route expires on its own.
Deregister(r) ==
    \/ routes' = [routes EXCEPT ![r] = 0] /\ forgotten' = forgotten \ {r}
    \/ routes[r] # 0 /\ forgotten' = forgotten \cup {r} /\ UNCHANGED routes

\* rotate drops the old route: after a registration for another it goes on to launch, after an
\* unanswered one it gives up and run starts over.
DropOld ==
    /\ pc = "dropOld"
    /\ Deregister(session.route)
    /\ session' = NoRoute
    /\ pc' = IF response # NoRoute THEN "launch" ELSE IF stopping THEN "unmap" ELSE "register"
    /\ UNCHANGED <<stopping, stateVars, knownAs, issued, response, rotating, inUse, box, hostVars>>

Undo_KeepsRoute ==
    /\ pc = "undo"
    /\ response' = NoRoute
    /\ pc' = IF stopping \/ inUse THEN "unmap" ELSE IF rotating THEN "register" ELSE "sleep"
    /\ UNCHANGED <<stopping, stateVars, cloudVars, session, rotating, inUse, box, hostVars>>

\* What failed to launch is deregistered.  run stops if the port is taken, starts over at once
\* after a rotation and backs off after start.
Undo ==
    /\ pc = "undo"
    /\ Deregister(response.route)
    /\ response' = NoRoute
    /\ pc' = IF stopping \/ inUse THEN "unmap" ELSE IF rotating THEN "register" ELSE "sleep"
    /\ UNCHANGED <<stopping, stateVars, knownAs, issued, session, rotating, inUse, box, hostVars>>

Backoff ==
    /\ pc = "sleep"
    /\ pc' = IF stopping THEN "unmap" ELSE "register"
    /\ UNCHANGED <<stopping, stateVars, cloudVars, session, response, rotating, inUse, box, hostVars>>

(***************************************************************************)
(* serve.                                                                  *)
(***************************************************************************)
\* A heartbeat finds the route gone; other heartbeats change nothing here.
HeartbeatNotFound ==
    /\ pc = "serve" /\ routes[session.route] = 0
    /\ box' = 0
    /\ session' = NoRoute
    /\ pc' = IF stopping THEN "unmap" ELSE "register"
    /\ UNCHANGED <<stopping, stateVars, cloudVars, response, rotating, inUse, hostVars>>

RotationDue ==
    /\ pc = "serve"
    /\ pc' = "rotate"
    /\ UNCHANGED <<stopping, stateVars, cloudVars, session, response, rotating, inUse, box, hostVars>>

ServeStops_NotHere ==
    /\ pc = "serve" /\ stopping
    /\ UNCHANGED nodeVars

ServeStops ==
    /\ pc = "serve" /\ stopping
    /\ box' = 0
    /\ pc' = "leave"
    /\ UNCHANGED <<stopping, stateVars, cloudVars, session, response, rotating, inUse, hostVars>>

Leave ==
    /\ pc = "leave"
    /\ Deregister(session.route)
    /\ session' = NoRoute
    /\ pc' = "unmap"
    /\ UNCHANGED <<stopping, stateVars, knownAs, issued, response, rotating, inUse, box, hostVars>>

\* run's deferred UnmapPort; a failure is only logged.
UnmapRouterPort ==
    /\ pc = "unmap"
    /\ mapped' \in {mapped, FALSE}
    /\ inUse' = FALSE
    /\ pc' = "down"
    /\ UNCHANGED <<stopping, stateVars, cloudVars, session, response, rotating, box, taken>>

(***************************************************************************)
(* The surroundings.                                                       *)
(***************************************************************************)
Stop ==
    /\ pc # "down" /\ ~stopping
    /\ stopping' = TRUE
    /\ UNCHANGED <<pc, stateVars, cloudVars, session, response, rotating, inUse, box, hostVars>>

RouteExpires(r) ==
    /\ routes[r] # 0
    /\ routes' = [routes EXCEPT ![r] = 0]
    /\ forgotten' = forgotten \ {r}
    /\ UNCHANGED <<pc, stopping, stateVars, knownAs, issued, session, response, rotating, inUse, box,
                   hostVars>>

\* Another program takes the port while no box holds it, or lets it go.
OtherProgram ==
    /\ box = 0
    /\ taken' = ~taken
    /\ UNCHANGED <<pc, stopping, stateVars, cloudVars, session, response, rotating, inUse, box, mapped>>

\* What the host forgets when the process is gone.
NodeGone ==
    /\ pc # "down"
    /\ pc' = "down"
    /\ session' = NoRoute /\ response' = NoRoute
    /\ box' = 0 /\ inUse' = FALSE
    /\ forgotten' = {r \in RouteIds : routes[r] # 0}
    /\ UNCHANGED <<stopping, device, devices, knownAs, routes, issued, rotating, hostVars>>

\* The process dies: the files are as it left them, the directory perhaps not synced.
ProcessDies ==
    /\ NodeGone
    /\ undurable' = (undurable \/ pc = "syncDir")
    /\ UNCHANGED <<file, synced, dirty>>

\* The host loses power: a name that is not durable may be gone, and contents that were not synced
\* are not whole.
PowerLoss ==
    /\ NodeGone
    /\ \/ dirty /\ file' = Absent
       \/ file' = IF file # Absent /\ ~synced THEN Partial ELSE file
    /\ dirty' = FALSE
    /\ UNCHANGED <<synced, undurable>>

NodeSteps ==
    \/ LoadState \/ SaveFails \/ WriteState \/ SyncState \/ RenameState \/ SyncDir
    \/ CheckPort \/ MapRouterPort \/ RecheckPort
    \/ \E r \in RouteIds : RegisterSucceeds(r) \/ RegisterUnanswered(r)
    \/ RegisterRefused
    \/ Launch \/ VerifySucceeds \/ VerifyFails \/ DropOld \/ Undo \/ Backoff
    \/ HeartbeatNotFound \/ ServeStops \/ Leave \/ UnmapRouterPort

NodeNext ==
    \/ RunStarts
    \/ NodeSteps
    \/ RotationDue
    \/ Stop
    \/ \E r \in RouteIds : RouteExpires(r)
    \/ OtherProgram
    \/ ProcessDies
    \/ PowerLoss

NodeSpec == NodeInit /\ [][NodeNext]_nodeVars

(***************************************************************************)
(* Properties.                                                             *)
(***************************************************************************)

\* While a session serves, its route does not advertise credentials its box does not have, however
\* a rotation went (rotate's comment): a refused one changes nothing, and one whose answer was
\* lost keeps nothing.
ServesWhatIsAdvertised ==
    pc = "serve" => /\ box = session.creds
                    /\ routes[session.route] \in {0, box}

\* "On failure it leaves nothing running or registered" (start, rotate), "It returns with nothing
\* running" (serve): between sessions no box runs, and a route is still registered only if a call
\* about it failed, or the node crashed, so that it was left to expire.
NothingLeftRunning ==
    pc \in {"down", "load", "check", "map", "register", "sleep", "unmap"} =>
       /\ box = 0
       /\ \A r \in RouteIds : routes[r] # 0 => r \in forgotten

\* "a crash or power loss can't leave a partial file that loses the device ID" (loadState): the
\* state file is never partial, and lantern-cloud only ever knows one identity of the host, unless
\* its directory could not be synced, or the process died just before it was.
IdentityIsKept ==
    /\ file # Partial
    /\ undurable \/ \A d, e \in knownAs : d = e

\* A node that is told to stop does: every failure on the way out is passed over.
StopEnds == stopping ~> (pc = "down")

\* What lantern-cloud advertises is what runs here: while a session serves, its credentials are
\* those of the box, and between sessions nothing is registered and nothing runs.
RoutesAreHonest == NodeTypeOK /\ ServesWhatIsAdvertised /\ NothingLeftRunning
=============================================================================
