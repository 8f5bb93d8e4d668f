----------------------------- MODULE PeerProofs -----------------------------
(***************************************************************************)
(* Proofs about the peer: the node that keeps it registered, the           *)
(* connections it serves, and the responder that judges the route to it.   *)
(***************************************************************************)
EXTENDS Node, PeerConnections, ProbeResponder, FiniteSetTheorems, TLAPS

(***************************************************************************)
(* The node: its state file.                                               *)
(***************************************************************************)
\* Past loadState.
Identified == {"check", "map", "recheck", "register", "launch", "verify", "serve", "rotate",
               "dropOld", "undo", "leave", "sleep", "unmap"}
Saving == {"write", "sync", "rename"}

\* A file that exists is whole, because the temporary file is synced before it gets its name; and
\* unless the directory was left unsynced, what lantern-cloud knows the node by is in a file whose
\* name is durable.
FileInv ==
    /\ pc \in Identified \cup Saving \cup {"down", "load", "syncDir"}
    /\ device \in 0..MaxDevices /\ devices \in 0..MaxDevices
    /\ file \in 0..MaxDevices
    /\ synced \in BOOLEAN /\ dirty \in BOOLEAN /\ undurable \in BOOLEAN
    /\ knownAs \subseteq 1..MaxDevices
    /\ pc = "load" /\ file = Absent => devices < MaxDevices
    /\ pc \in Saving => file = Absent
    /\ pc \in Saving \cup Identified \cup {"syncDir"} => device # 0
    /\ file # Absent \/ pc = "rename" => synced
    /\ pc \in Identified \cup {"syncDir"} => file = device
    /\ ~undurable => /\ dirty => pc = "syncDir" /\ knownAs = {}
                     /\ knownAs \subseteq {file} \ {Absent}

\* The steps that touch neither the file nor what lantern-cloud knows.
FileKept == UNCHANGED <<stateVars, knownAs>>

\* A step that touches neither the state file nor what is durable, and stays on its side of
\* loadState, keeps the file's invariant.
LEMMA OtherSteps ==
  ASSUME FileInv, FileKept,
         \/ pc \in Identified /\ pc' \in Identified \cup {"down"}
         \/ pc' = "down" /\ pc \in {"down"} \cup Saving
         \/ pc' = pc
         \/ RunStarts
  PROVE  FileInv'
  BY DEF FileInv, FileKept, stateVars, Identified, Saving, RunStarts, Absent

\* loadState and saveState: each part of writing the file, and its failures.
LEMMA LoadKeepsFile ==
  ASSUME FileInv,
         LoadState \/ SaveFails \/ WriteState \/ SyncState \/ RenameState \/ SyncDir
  PROVE  FileInv'
<1> USE NodeAssumption DEF FileInv, stateVars, cloudVars, Absent, Saving, Identified
<1>1. CASE LoadState
  BY <1>1 DEF LoadState, Partial
<1>2. CASE SaveFails
  BY <1>2, Zenon DEF SaveFails
<1>3. CASE WriteState
  BY <1>3, Zenon DEF WriteState
<1>4. CASE SyncState
  BY <1>4, Zenon DEF SyncState
<1>5. CASE RenameState
  BY <1>5, Zenon DEF RenameState
<1>6. CASE SyncDir
  BY <1>6, Zenon DEF SyncDir
<1> HIDE DEF FileInv, stateVars, cloudVars, Absent, Saving, Identified
<1> QED
  BY <1>1, <1>2, <1>3, <1>4, <1>5, <1>6, Zenon

\* Registering tells lantern-cloud the identity that is in the file.
LEMMA RegisterKeepsFile ==
  ASSUME FileInv, NEW r \in RouteIds, RegisterSucceeds(r) \/ RegisterUnanswered(r)
  PROVE  FileInv'
<1>1. /\ pc \in {"register", "rotate"} /\ pc' \in {"dropOld", "launch", "unmap", "sleep"}
      /\ UNCHANGED stateVars
  BY Zenon DEF RegisterSucceeds, RegisterUnanswered
<1>2. knownAs' = knownAs \/ knownAs' = knownAs \cup {device}
  BY Zenon DEF RegisterSucceeds, RegisterUnanswered, cloudVars
<1>3. device \in 1..MaxDevices /\ file = device
  BY <1>1, NodeAssumption DEF FileInv, Identified
<1> QED
  BY <1>1, <1>2, <1>3, Zenon DEF FileInv, stateVars, Absent, Saving, Identified

\* A crash loses what is in memory, a power loss also the name that was not synced.
LEMMA CrashKeepsFile == FileInv /\ (ProcessDies \/ PowerLoss) => FileInv'
<1> SUFFICES ASSUME FileInv, ProcessDies \/ PowerLoss PROVE FileInv'
  BY Zenon
<1> USE NodeAssumption DEF FileInv, Absent, Saving, Identified, NodeGone
<1>1. CASE ProcessDies
  BY <1>1, Zenon DEF ProcessDies
<1>2. CASE PowerLoss
  <2>1. synced' \in BOOLEAN /\ dirty' \in BOOLEAN /\ undurable' \in BOOLEAN
    BY <1>2, Zenon DEF PowerLoss
  <2>2. file' = file \/ (dirty /\ file' = Absent)
    BY <1>2, Zenon DEF PowerLoss
  <2> QED
    BY <1>2, <2>1, <2>2 DEF PowerLoss
<1> QED
  BY <1>1, <1>2, Zenon

\* Every step keeps the file's invariant.
LEMMA StepKeepsFile == FileInv /\ [NodeNext]_nodeVars => FileInv'
<1> SUFFICES ASSUME FileInv, [NodeNext]_nodeVars PROVE FileInv'
  BY Zenon
<1> USE DEF FileKept, stateVars, cloudVars, Identified
<1>1. CASE \/ CheckPort \/ MapRouterPort \/ RecheckPort \/ RegisterRefused \/ Launch
           \/ VerifySucceeds \/ VerifyFails \/ DropOld \/ Undo \/ Backoff
  BY <1>1, OtherSteps, Zenon
  DEF CheckPort, MapRouterPort, RecheckPort, RegisterRefused, Launch, VerifySucceeds, VerifyFails,
      DropOld, Undo, Backoff
<1>2. CASE \/ HeartbeatNotFound \/ ServeStops \/ Leave \/ UnmapRouterPort \/ RotationDue
  BY <1>2, OtherSteps, Zenon DEF HeartbeatNotFound, ServeStops, Leave, UnmapRouterPort, RotationDue
<1>3. CASE RunStarts \/ Stop \/ (\E r \in RouteIds : RouteExpires(r)) \/ OtherProgram
  BY <1>3, OtherSteps, Zenon DEF RunStarts, Stop, RouteExpires, OtherProgram
<1>4. CASE UNCHANGED nodeVars
  BY <1>4, OtherSteps, Zenon DEF nodeVars
<1> HIDE DEF FileKept, stateVars, cloudVars, Identified
<1> QED
  BY <1>1, <1>2, <1>3, <1>4, LoadKeepsFile, RegisterKeepsFile, CrashKeepsFile, Zenon
  DEF NodeNext, NodeSteps

\* A new host has no file.
LEMMA FileInit == NodeInit => FileInv
<1> SUFFICES ASSUME NodeInit PROVE FileInv
  BY Zenon
<1>1. synced \in BOOLEAN /\ dirty \in BOOLEAN /\ undurable \in BOOLEAN
  BY Zenon DEF NodeInit
<1> QED
  BY <1>1, NodeAssumption DEF NodeInit, FileInv, Absent, Saving, Identified

\* Whenever the process or the host dies, a node finds a whole state file or none, and lantern-cloud
\* knows one identity of the host, if only the directory is synced.
THEOREM IdentityAlwaysKept == NodeSpec => []IdentityIsKept
<1>2. FileInv => IdentityIsKept
  <2> SUFFICES ASSUME FileInv PROVE IdentityIsKept
    BY Zenon
  <2>1. file # Partial
    BY NodeAssumption DEF FileInv, Partial
  <2>2. ASSUME ~undurable, NEW d \in knownAs, NEW e \in knownAs PROVE d = e
    BY <2>2, Zenon DEF FileInv
  <2> QED
    BY <2>1, <2>2, Zenon DEF IdentityIsKept, FileInv
<1> QED
  BY <1>2, FileInit, StepKeepsFile, PTL DEF NodeSpec

(***************************************************************************)
(* The node: its routes and its box.                                       *)
(***************************************************************************)
OnSession == {"serve", "rotate", "leave"}
OnResponse == {"launch", "verify", "undo"}

IsRoute(x) == x.route \in RouteIds

\* A route at lantern-cloud that the node has in hand, or forgotten by a call that failed.
InHand(r) ==
    \/ pc \in OnSession \cup {"dropOld"} /\ r = session.route
    \/ pc \in OnResponse \cup {"dropOld"} /\ r = response.route

\* What route x advertises, if it is still registered, is what x says.
Honest(x) == routes[x.route] \in {0, x.creds}

NodeTyped ==
    /\ pc \in {"down", "load", "write", "sync", "rename", "syncDir", "check", "map", "recheck",
               "register", "sleep", "unmap", "dropOld"} \cup OnSession \cup OnResponse
    /\ routes \in [RouteIds -> 0..MaxCreds] /\ issued \in 0..MaxCreds
    /\ session \in Registration /\ response \in Registration
    /\ box \in 0..MaxCreds
    /\ forgotten \subseteq RouteIds

\* Wherever the node is, it knows which route it is about, and a box runs only with the credentials
\* of that route.
RoutesInv ==
    /\ NodeTyped
    /\ pc \in OnSession \cup {"dropOld"} => IsRoute(session)
    /\ pc \in OnResponse => IsRoute(response)
    /\ response = NoRoute \/ IsRoute(response)
    /\ box = IF pc \in {"serve", "rotate"} THEN session.creds
             ELSE IF pc = "verify" THEN response.creds ELSE 0
    /\ pc \in {"serve", "rotate"} => Honest(session)
    /\ pc \in OnResponse \cup {"dropOld"} /\ IsRoute(response) => Honest(response)
    /\ \A r \in RouteIds : routes[r] # 0 => r \in forgotten \/ InHand(r)

\* The steps that change neither lantern-cloud nor what the node has in hand.
LEMMA InHandKept ==
  ASSUME RoutesInv, UNCHANGED <<cloudVars, session, response>>,
         NodeTyped',
         pc' \in OnSession <=> pc \in OnSession,
         pc' \in OnResponse <=> pc \in OnResponse,
         pc' = "dropOld" <=> pc = "dropOld",
         pc' \in {"serve", "rotate"} => pc \in {"serve", "rotate"},
         box' = IF pc' \in {"serve", "rotate"} THEN session.creds
                ELSE IF pc' = "verify" THEN response.creds ELSE 0
  PROVE  RoutesInv'
<1> USE DEF RoutesInv, NodeTyped, cloudVars
<1>1. ASSUME NEW r \in RouteIds PROVE InHand(r)' <=> InHand(r)
  BY <1>1, Zenon DEF InHand
<1>2. \A r \in RouteIds : routes'[r] # 0 => r \in forgotten' \/ InHand(r)'
  BY <1>1, Zenon
<1> QED
  BY <1>2, Zenon DEF IsRoute, Honest

\* Neither a refused registration, nor a stop, nor a rotation that is due, nor another program
\* touches what is registered.
LEMMA QuietNodeSteps ==
  ASSUME RoutesInv,
         \/ RunStarts \/ LoadState \/ SaveFails \/ WriteState \/ SyncState \/ RenameState \/ SyncDir
         \/ CheckPort \/ MapRouterPort \/ RecheckPort \/ RegisterRefused \/ Backoff
         \/ RotationDue \/ UnmapRouterPort \/ Stop \/ OtherProgram
  PROVE  RoutesInv'
<1>0. UNCHANGED <<cloudVars, session, response, box>>
  BY Zenon DEF RunStarts, LoadState, SaveFails, WriteState, SyncState, RenameState, SyncDir, CheckPort,
         MapRouterPort, RecheckPort, RegisterRefused, Backoff, RotationDue, UnmapRouterPort, Stop,
         OtherProgram
<1> USE DEF OnSession, OnResponse
<1>1. /\ pc' \in {"down", "load", "write", "sync", "rename", "syncDir", "check", "map", "recheck",
                "register", "sleep", "unmap", "dropOld"} \cup OnSession \cup OnResponse
      /\ pc' \in {"serve", "rotate"} <=> pc \in {"serve", "rotate"}
      /\ pc' = "leave" <=> pc = "leave"
      /\ pc' \in OnResponse \/ pc \in OnResponse => pc' = pc
      /\ pc' = "dropOld" <=> pc = "dropOld"
  BY ZenonT(60) DEF RoutesInv, NodeTyped, RunStarts, LoadState, SaveFails, WriteState, SyncState, RenameState,
         SyncDir, CheckPort, MapRouterPort, RecheckPort, RegisterRefused, Backoff, RotationDue,
         UnmapRouterPort, Stop, OtherProgram
<1>2. NodeTyped'
  BY <1>0, <1>1, Zenon DEF RoutesInv, NodeTyped, cloudVars
<1>3. box' = IF pc' \in {"serve", "rotate"} THEN session.creds
             ELSE IF pc' = "verify" THEN response.creds ELSE 0
  BY <1>0, <1>1, Zenon DEF RoutesInv
<1> QED
  BY <1>0, <1>1, <1>2, <1>3, InHandKept, Zenon

\* A registration that is answered is in hand, whichever route it names; the route of a rotation
\* stays in hand until it is dropped.
LEMMA RegisterSucceedsHonest ==
  ASSUME RoutesInv, NEW r \in RouteIds, RegisterSucceeds(r) PROVE RoutesInv'
<1> USE NodeAssumption DEF OnSession, OnResponse
<1> DEFINE n == issued + 1
           o == [route |-> r, creds |-> n]
<1>1. n \in 0..MaxCreds /\ o \in Registration /\ o.route = r /\ o.creds = n
  BY DEF RegisterSucceeds, RoutesInv, NodeTyped, Registration
<1>2. /\ issued' = n /\ routes' = [routes EXCEPT ![r] = n] /\ response' = o
      /\ forgotten' = forgotten \ {r} /\ box' = 0
  BY Zenon DEF RegisterSucceeds
<1> HIDE DEF n, o
<1>3. NoRoute \in Registration
  BY DEF NoRoute, Registration
<1>4. session' \in Registration
  BY <1>3, Zenon DEF RegisterSucceeds, RoutesInv, NodeTyped
<1>5. CASE pc = "rotate" /\ session.route # r
  BY <1>1, <1>2, <1>4, <1>5 DEF RegisterSucceeds, RoutesInv, NodeTyped, IsRoute, Honest, InHand
<1>6. CASE ~(pc = "rotate" /\ session.route # r)
  <2>1. pc' = "launch" /\ pc \in {"register", "rotate"}
    BY <1>6, Zenon DEF RegisterSucceeds
  <2>2. \A q \in RouteIds : routes'[q] # 0 => q \in forgotten' \/ InHand(q)'
    BY <1>1, <1>2, <1>6, <2>1, Zenon DEF RoutesInv, NodeTyped, InHand
  <2> QED
    BY <1>1, <1>2, <1>4, <2>1, <2>2 DEF RoutesInv, NodeTyped, IsRoute, Honest
<1> QED
  BY <1>5, <1>6, Zenon

\* One that is not answered may leave a route: the session's own is still in hand, another forgotten.
LEMMA RegisterUnansweredHonest ==
  ASSUME RoutesInv, NEW r \in RouteIds, RegisterUnanswered(r) PROVE RoutesInv'
<1> USE NodeAssumption DEF OnSession, OnResponse
<1>1. /\ issued' \in 0..MaxCreds /\ routes' \in [RouteIds -> 0..MaxCreds]
      /\ forgotten' \subseteq RouteIds /\ forgotten \subseteq forgotten'
      /\ \A q \in RouteIds : q # r => routes'[q] = routes[q]
      /\ \/ routes'[r] = routes[r]
         \/ r \in forgotten'
         \/ pc = "rotate" /\ session.route = r
  BY DEF RegisterUnanswered, RoutesInv, NodeTyped, cloudVars
<1>2. NoRoute \in Registration /\ ~IsRoute(NoRoute)
  BY DEF NoRoute, Registration, IsRoute
<1>3. CASE pc = "rotate"
  <2>1. pc' = "dropOld" /\ box' = 0 /\ response' = NoRoute /\ session' = session
    BY <1>3, Zenon DEF RegisterUnanswered
  <2>2. \A q \in RouteIds : routes'[q] # 0 => q \in forgotten' \/ InHand(q)'
    BY <1>1, <1>3, <2>1, Zenon DEF RoutesInv, NodeTyped, InHand
  <2> QED
    BY <1>1, <1>2, <1>3, <2>1, <2>2 DEF RoutesInv, NodeTyped, IsRoute, Honest
<1>4. CASE pc = "register"
  <2>1. pc' \in {"unmap", "sleep"} /\ UNCHANGED <<box, response, session>>
    BY <1>4, Zenon DEF RegisterUnanswered
  <2>2. \A q \in RouteIds : routes'[q] # 0 => q \in forgotten' \/ InHand(q)'
    BY <1>1, <1>4, <2>1, Zenon DEF RoutesInv, NodeTyped, InHand
  <2> QED
    BY <1>1, <1>2, <1>4, <2>1, <2>2, Zenon DEF RoutesInv, NodeTyped, IsRoute, Honest
<1> QED
  BY <1>3, <1>4, Zenon DEF RegisterUnanswered

\* A deregistered route is gone or forgotten; the others stay.
LEMMA DeregisterForgets ==
  ASSUME RoutesInv, NEW r \in RouteIds, Deregister(r)
  PROVE  /\ routes' \in [RouteIds -> 0..MaxCreds] /\ forgotten' \subseteq RouteIds
         /\ \A q \in RouteIds : routes'[q] \in {0, routes[q]}
         /\ \A q \in RouteIds : routes'[q] # 0 /\ q \in forgotten => q \in forgotten'
         /\ routes'[r] # 0 => r \in forgotten'
  BY NodeAssumption DEF RoutesInv, NodeTyped, Deregister

\* What is launched is the registration in hand, until it is the session or is undone.
LEMMA LaunchHonest ==
  ASSUME RoutesInv, Launch \/ VerifySucceeds \/ VerifyFails \/ Undo PROVE RoutesInv'
<1> USE NodeAssumption DEF OnSession, OnResponse
<1>0. NoRoute \in Registration
  BY DEF NoRoute, Registration
<1>1. CASE Launch
  <2>1. \A q \in RouteIds : routes'[q] # 0 => q \in forgotten' \/ InHand(q)'
    BY <1>1, Zenon DEF Launch, RoutesInv, InHand, cloudVars
  <2>2. box' = IF pc' = "verify" THEN response.creds ELSE 0
    BY <1>1, Zenon DEF Launch, RoutesInv
  <2>3. box' \in 0..MaxCreds
    BY <1>1, Zenon DEF Launch, RoutesInv, NodeTyped, Registration
  <2> QED
    BY <1>1, <2>1, <2>2, <2>3, Zenon DEF Launch, RoutesInv, NodeTyped, IsRoute, Honest, cloudVars
<1>2. CASE VerifySucceeds
  <2>1. \A q \in RouteIds : routes'[q] # 0 => q \in forgotten' \/ InHand(q)'
    BY <1>2, Zenon DEF VerifySucceeds, RoutesInv, InHand, cloudVars
  <2> QED
    BY <1>0, <1>2, <2>1, Zenon DEF VerifySucceeds, RoutesInv, NodeTyped, IsRoute, Honest, cloudVars
<1>3. CASE VerifyFails
  <2>1. \A q \in RouteIds : routes'[q] # 0 => q \in forgotten' \/ InHand(q)'
    BY <1>3, Zenon DEF VerifyFails, RoutesInv, InHand, cloudVars
  <2> QED
    BY <1>3, <2>1 DEF VerifyFails, RoutesInv, NodeTyped, IsRoute, Honest, cloudVars
<1>4. CASE Undo
  <2>1. response.route \in RouteIds
    BY <1>4, Zenon DEF Undo, RoutesInv, IsRoute
  <2>2. PICK r \in RouteIds : r = response.route
    BY <2>1, Zenon
  <2>3. Deregister(r)
    BY <1>4, <2>2, Zenon DEF Undo
  <2>4. /\ pc = "undo" /\ pc' \in {"unmap", "register", "sleep"} /\ response' = NoRoute
        /\ UNCHANGED <<issued, session, box>>
    BY <1>4, Zenon DEF Undo
  <2>5. \A q \in RouteIds : routes'[q] # 0 => q \in forgotten'
    BY <2>2, <2>3, <2>4, DeregisterForgets, Zenon DEF RoutesInv, InHand, NodeTyped
  <2> QED
    BY <1>0, <2>3, <2>4, <2>5, DeregisterForgets, Zenon DEF RoutesInv, NodeTyped, IsRoute, Honest
<1> HIDE DEF OnSession, OnResponse
<1> QED
  BY <1>1, <1>2, <1>3, <1>4, Zenon

\* A rotation drops the old route before the new one is served.
LEMMA DropOldHonest == RoutesInv /\ DropOld => RoutesInv'
<1> SUFFICES ASSUME RoutesInv, DropOld PROVE RoutesInv'
  BY Zenon
<1> USE NodeAssumption DEF OnSession, OnResponse
<1>0. NoRoute \in Registration
  BY SMTT(30) DEF NoRoute, Registration
<1>1. PICK r \in RouteIds : r = session.route
  BY Zenon DEF DropOld, RoutesInv, IsRoute
<1>2. Deregister(r)
  BY <1>1, Zenon DEF DropOld
<1>3. /\ pc = "dropOld" /\ session' = NoRoute
      /\ \/ pc' = "launch" /\ response # NoRoute
         \/ pc' \in {"unmap", "register"} /\ response = NoRoute
      /\ UNCHANGED <<issued, response, box>>
  BY Zenon DEF DropOld
<1>4. \A q \in RouteIds : routes'[q] # 0 => q \in forgotten' \/ InHand(q)'
  <2> SUFFICES ASSUME NEW q \in RouteIds, routes'[q] # 0, q \notin forgotten' PROVE InHand(q)'
    BY Zenon
  <2>1. q # r /\ routes[q] # 0 /\ q \notin forgotten
    BY <1>2, DeregisterForgets, Zenon DEF RoutesInv, NodeTyped
  <2>2. q = response.route
    BY <1>1, <1>3, <2>1, Zenon DEF RoutesInv, InHand
  <2>3. response # NoRoute
    <3>1. NoRoute.route # q
      BY NodeAssumption, Zenon DEF NoRoute
    <3> QED
      BY <2>2, <3>1, Zenon
  <2> QED
    BY <1>3, <2>2, <2>3, Zenon DEF InHand
<1>5. pc' = "launch" => IsRoute(response) /\ Honest(response)
  BY <1>3, Zenon DEF RoutesInv
<1>6. pc' = "launch" => Honest(response)'
  BY <1>2, <1>3, <1>5, DeregisterForgets, Zenon DEF Honest, IsRoute
<1> QED
  BY <1>0, <1>2, <1>3, <1>4, <1>5, <1>6, DeregisterForgets, Zenon DEF RoutesInv, NodeTyped, IsRoute

\* serve ends without its box, and with its route gone, dropped or forgotten.
LEMMA ServeHonest ==
  ASSUME RoutesInv, HeartbeatNotFound \/ ServeStops \/ Leave PROVE RoutesInv'
<1> USE NodeAssumption DEF OnSession, OnResponse
<1>0. NoRoute \in Registration
  BY DEF NoRoute, Registration
<1>1. CASE HeartbeatNotFound
  <2>1. \A q \in RouteIds : routes'[q] # 0 => q \in forgotten'
    BY <1>1, Zenon DEF HeartbeatNotFound, RoutesInv, InHand, cloudVars
  <2> QED
    BY <1>0, <1>1, <2>1, Zenon DEF HeartbeatNotFound, RoutesInv, NodeTyped, IsRoute, Honest, cloudVars
<1>2. CASE ServeStops
  <2>1. \A q \in RouteIds : routes'[q] # 0 => q \in forgotten' \/ InHand(q)'
    BY <1>2, Zenon DEF ServeStops, RoutesInv, InHand, cloudVars
  <2> QED
    BY <1>2, <2>1, SMTT(30) DEF ServeStops, RoutesInv, NodeTyped, IsRoute, Honest, cloudVars
<1>3. CASE Leave
  <2>1. PICK r \in RouteIds : r = session.route
    BY <1>3, Zenon DEF Leave, RoutesInv, IsRoute
  <2>2. Deregister(r)
    BY <1>3, <2>1, Zenon DEF Leave
  <2>3. pc = "leave" /\ pc' = "unmap" /\ session' = NoRoute /\ UNCHANGED <<issued, response, box>>
    BY <1>3, Zenon DEF Leave
  <2>4. \A q \in RouteIds : routes'[q] # 0 => q \in forgotten'
    BY <2>1, <2>2, <2>3, DeregisterForgets, Zenon DEF RoutesInv, InHand, NodeTyped
  <2> QED
    BY <1>0, <2>2, <2>3, <2>4, DeregisterForgets, Zenon DEF RoutesInv, NodeTyped, IsRoute, Honest
<1> QED
  BY <1>1, <1>2, <1>3, Zenon

\* Routes that expire, and a node that is gone.
LEMMA SurroundingsHonest ==
  ASSUME RoutesInv, (\E r \in RouteIds : RouteExpires(r)) \/ NodeGone PROVE RoutesInv'
<1> USE NodeAssumption DEF OnSession, OnResponse
<1>1. ASSUME NEW r \in RouteIds, RouteExpires(r) PROVE RoutesInv'
  <2>1. /\ routes' = [routes EXCEPT ![r] = 0] /\ forgotten' = forgotten \ {r}
        /\ UNCHANGED <<pc, issued, session, response, box>>
    BY <1>1, Zenon DEF RouteExpires
  <2>2. \A q \in RouteIds : routes'[q] # 0 => q \in forgotten' \/ InHand(q)'
    BY <2>1, Zenon DEF RoutesInv, NodeTyped, InHand
  <2> QED
    BY <2>1, <2>2 DEF RoutesInv, NodeTyped, IsRoute, Honest
<1>2. CASE NodeGone
  BY <1>2 DEF NodeGone, RoutesInv, NodeTyped, NoRoute, Registration, IsRoute, Honest, InHand
<1> QED
  BY <1>1, <1>2, Zenon

\* Every step keeps the routes in hand or forgotten.
LEMMA StepKeepsRoutes == RoutesInv /\ [NodeNext]_nodeVars => RoutesInv'
<1> SUFFICES ASSUME RoutesInv, [NodeNext]_nodeVars PROVE RoutesInv'
  OBVIOUS
<1>1. CASE UNCHANGED nodeVars
  BY <1>1 DEF nodeVars, cloudVars, RoutesInv, NodeTyped, IsRoute, Honest, InHand
<1>2. CASE ProcessDies \/ PowerLoss
  BY <1>2, SurroundingsHonest, Zenon DEF ProcessDies, PowerLoss
<1> QED
  BY <1>1, <1>2, QuietNodeSteps, RegisterSucceedsHonest, RegisterUnansweredHonest, LaunchHonest,
     DropOldHonest, ServeHonest, SurroundingsHonest, Zenon
  DEF NodeNext, NodeSteps

\* The flags of the node and of its host.
FlagsTyped == {stopping, rotating, inUse, mapped, taken} \subseteq BOOLEAN

\* The flags of the node stay Boolean.
LEMMA FlagsStayTyped == FlagsTyped /\ [NodeNext]_nodeVars => FlagsTyped'
<1> SUFFICES ASSUME FlagsTyped, [NodeNext]_nodeVars PROVE FlagsTyped'
  OBVIOUS
<1>0. /\ stopping \in BOOLEAN /\ rotating \in BOOLEAN /\ inUse \in BOOLEAN
      /\ mapped \in BOOLEAN /\ taken \in BOOLEAN
  BY Zenon DEF FlagsTyped
<1> SUFFICES /\ stopping' \in BOOLEAN /\ rotating' \in BOOLEAN /\ inUse' \in BOOLEAN
             /\ mapped' \in BOOLEAN /\ taken' \in BOOLEAN
  BY Zenon DEF FlagsTyped
<1> USE <1>0 DEF hostVars
<1>1. CASE RunStarts \/ RotationDue \/ Stop \/ OtherProgram \/ \E r \in RouteIds : RouteExpires(r)
  BY <1>1, Zenon DEF RunStarts, RotationDue, Stop, OtherProgram, RouteExpires
<1>2. CASE ProcessDies \/ PowerLoss
  BY <1>2, Zenon DEF ProcessDies, PowerLoss, NodeGone
<1>3. CASE \/ LoadState \/ SaveFails \/ WriteState \/ SyncState \/ RenameState \/ SyncDir
           \/ CheckPort \/ MapRouterPort \/ RecheckPort
  BY <1>3, Zenon DEF LoadState, SaveFails, WriteState, SyncState, RenameState, SyncDir, CheckPort,
              MapRouterPort, RecheckPort
<1>4. CASE \/ \E r \in RouteIds : RegisterSucceeds(r) \/ RegisterUnanswered(r)
           \/ RegisterRefused
  BY <1>4, ZenonT(60) DEF RegisterSucceeds, RegisterUnanswered, RegisterRefused
<1>5. CASE \/ Launch \/ VerifySucceeds \/ VerifyFails \/ DropOld \/ Undo \/ Backoff
           \/ HeartbeatNotFound \/ ServeStops \/ Leave \/ UnmapRouterPort
  BY <1>5, Zenon DEF Launch, VerifySucceeds, VerifyFails, DropOld, Undo, Backoff, HeartbeatNotFound,
              ServeStops, Leave, UnmapRouterPort
<1>6. CASE UNCHANGED nodeVars
  BY <1>6, Zenon DEF nodeVars
<1> HIDE DEF hostVars
<1> QED
  BY <1>1, <1>2, <1>3, <1>4, <1>5, <1>6, Zenon DEF NodeNext, NodeSteps

\* Whatever fails, expires, rotates or crashes, a serving session runs the credentials its route
\* advertises, and between sessions no box runs and no route is registered that was not forgotten.
THEOREM RoutesAlwaysHonest == NodeSpec => []RoutesAreHonest
<1>1. NodeInit => FileInv /\ RoutesInv /\ FlagsTyped
  <2> SUFFICES ASSUME NodeInit PROVE RoutesInv /\ FlagsTyped
    BY FileInit, Zenon
  <2>1. RoutesInv
    BY NodeAssumption DEF NodeInit, RoutesInv, NodeTyped, NoRoute, Registration, IsRoute, InHand,
                          OnSession, OnResponse
  <2>2. FlagsTyped
    BY Zenon DEF NodeInit, FlagsTyped
  <2> QED
    BY <2>1, <2>2, Zenon
<1>2. FileInv /\ RoutesInv /\ FlagsTyped => RoutesAreHonest
  <2> SUFFICES ASSUME FileInv, RoutesInv, FlagsTyped PROVE RoutesAreHonest
    BY Zenon
  <2>1. ASSUME NEW x, IsRoute(x) PROVE x # NoRoute
    BY <2>1, NodeAssumption DEF IsRoute, NoRoute
  <2>2. /\ device \in 0..MaxDevices /\ devices \in 0..MaxDevices
        /\ file \in {Absent, Partial} \cup 1..MaxDevices /\ knownAs \subseteq 1..MaxDevices
    BY NodeAssumption DEF FileInv, Absent
  <2>3. {stopping, synced, dirty, undurable, rotating, inUse, mapped, taken} \subseteq BOOLEAN
    BY Zenon DEF FileInv, FlagsTyped
  <2>4. /\ pc \in {"serve", "leave"} => session # NoRoute
        /\ pc \in {"launch", "verify", "undo"} => response # NoRoute
    BY <2>1, Zenon DEF RoutesInv, OnSession, OnResponse
  <2>5. NodeTypeOK
    BY <2>2, <2>3, <2>4, Zenon DEF NodeTypeOK, RoutesInv, NodeTyped, OnSession, OnResponse
  <2>6. ServesWhatIsAdvertised
    BY Zenon DEF ServesWhatIsAdvertised, RoutesInv, Honest
  <2>7. NothingLeftRunning
    BY Zenon DEF NothingLeftRunning, RoutesInv, InHand, OnSession, OnResponse
  <2> QED
    BY <2>5, <2>6, <2>7, Zenon DEF RoutesAreHonest
<1> QED
  BY <1>1, <1>2, StepKeepsFile, StepKeepsRoutes, FlagsStayTyped, PTL DEF NodeSpec

(***************************************************************************)
(* The connections of an inbound and the counters that are told of them.   *)
(***************************************************************************)
PeerTypeOK ==
    /\ registered \in Listeners \cup {NoListener}
    /\ counts \in [Listeners -> [Ips -> Nat]]
    /\ stage \in [Conns -> {"new", "acquired", "routing", "closing", "returning", "ended"}]
    /\ notify \in [Conns -> Listeners \cup {NoListener}]
    /\ routed \subseteq Conns /\ expired \subseteq Conns

PeerInv == PeerTypeOK /\ ConnectionsAreSeenOut

\* The open connections of a listener and a client are finitely many.
LEMMA OpenIsFinite ==
  ASSUME NEW l, NEW ip
  PROVE  /\ IsFiniteSet(Open(l, ip))
         /\ Cardinality(Open(l, ip)) \in Nat
<1>1. Open(l, ip) \subseteq Conns
  BY Zenon DEF Open
<1> QED
  BY <1>1, FS_Subset, FS_CardinalityType, PeerAssumption, Zenon

\* A step that leaves each connection's listener and whether it is open leaves the counts exact.
LEMMA QuietStep ==
  ASSUME PeerInv, PeerTypeOK',
         notify' = notify, counts' = counts,
         \A c \in Conns : stage'[c] \in {"routing", "closing", "returning"}
                            <=> stage[c] \in {"routing", "closing", "returning"},
         HandlerOutlivesCopies'
  PROVE  PeerInv'
<1>1. ASSUME NEW l, NEW ip PROVE Open(l, ip)' = Open(l, ip)
  BY <1>1, Zenon DEF Open
<1> QED
  BY <1>1, Zenon DEF PeerInv, ConnectionsAreSeenOut, ClientCountIsExact

\* An opening event is told to the listener the connection acquired, and counted there only.
LEMMA AcceptCounts ==
  ASSUME PeerInv, NEW c \in Conns, Accept(c) PROVE PeerInv'
<1> USE DEF PeerTypeOK
<1>1. stage' = [stage EXCEPT ![c] = "routing"] /\ stage[c] = "acquired" /\ notify' = notify
  BY Zenon DEF Accept
<1>2. ASSUME NEW l, NEW ip PROVE Open(l, ip)' = IF notify[c] = l /\ IpOf[c] = ip
                                                 THEN Open(l, ip) \cup {c} ELSE Open(l, ip)
  BY <1>1, PeerAssumption, Zenon DEF Open, PeerInv
<1>3. ASSUME NEW l, NEW ip PROVE c \notin Open(l, ip)
  BY <1>1, Zenon DEF Open
<1>4. counts' \in [Listeners -> [Ips -> Nat]]
  <2>1. CASE notify[c] = NoListener
    BY <2>1, Zenon DEF Accept, Listen, PeerInv
  <2>2. CASE notify[c] # NoListener
    <3>1. notify[c] \in Listeners /\ IpOf[c] \in Ips
      BY <2>2, PeerAssumption, Zenon DEF PeerInv
    <3>2. counts[notify[c]] \in [Ips -> Nat] /\ counts[notify[c]][IpOf[c]] \in Nat
      BY <3>1, Zenon DEF PeerInv
    <3>3. PICK n \in Nat : counts' = [counts EXCEPT ![notify[c]][IpOf[c]] = n]
      BY <2>2, <3>1, <3>2 DEF Accept, Listen, PeerInv
    <3>4. [counts[notify[c]] EXCEPT ![IpOf[c]] = n] \in [Ips -> Nat]
      BY <3>2, Zenon
    <3> QED
      BY <3>1, <3>3, <3>4, Zenon DEF PeerInv
  <2> QED
    BY <2>1, <2>2, Zenon
<1>5. PeerTypeOK'
  BY <1>4, <1>1, Zenon DEF Accept, PeerInv
<1>6. ASSUME NEW l \in Listeners, NEW ip \in Ips PROVE counts'[l][ip] = Cardinality(Open(l, ip)')
  <2>1. counts[l][ip] = Cardinality(Open(l, ip)) /\ counts[l][ip] \in Nat
    BY Zenon DEF PeerInv, ConnectionsAreSeenOut, ClientCountIsExact
  <2>2. CASE notify[c] = l /\ IpOf[c] = ip
    <3>1. counts'[l][ip] = counts[l][ip] + 1
      BY <2>1, <2>2, PeerAssumption DEF Accept, Listen, PeerInv
    <3>2. Cardinality(Open(l, ip) \cup {c}) = Cardinality(Open(l, ip)) + 1
      BY <1>3, OpenIsFinite, FS_AddElement, Zenon
    <3> HIDE DEF PeerTypeOK
    <3> QED
      BY <1>2, <2>1, <2>2, <3>1, <3>2, Zenon
  <2>3. CASE ~(notify[c] = l /\ IpOf[c] = ip)
    <3>1. counts'[l][ip] = counts[l][ip]
      BY <2>1, <2>3, PeerAssumption DEF Accept, Listen, PeerInv
    <3> HIDE DEF PeerTypeOK
    <3> QED
      BY <1>2, <2>1, <2>3, <3>1, Zenon
  <2> QED
    BY <2>2, <2>3, Zenon
<1>7. ClientCountIsExact'
  BY <1>6, Zenon DEF ClientCountIsExact
<1>8. HandlerOutlivesCopies'
  BY <1>1, Zenon DEF PeerInv, ConnectionsAreSeenOut, HandlerOutlivesCopies, Accept
<1> QED
  BY <1>5, <1>7, <1>8, Zenon DEF PeerInv, ConnectionsAreSeenOut

\* And so is its closing event, whoever is registered by then.
LEMMA CloseCounts ==
  ASSUME PeerInv, NEW c \in Conns, CloseEvent(c) PROVE PeerInv'
<1> USE DEF PeerTypeOK
<1>1. stage' = [stage EXCEPT ![c] = "ended"] /\ stage[c] = "returning" /\ notify' = notify
  BY Zenon DEF CloseEvent
<1>2. ASSUME NEW l, NEW ip PROVE Open(l, ip)' = Open(l, ip) \ {c}
  BY <1>1, PeerAssumption, Zenon DEF Open, PeerInv
<1>3. ASSUME NEW l, NEW ip PROVE c \in Open(l, ip) <=> notify[c] = l /\ IpOf[c] = ip
  BY <1>1, Zenon DEF Open
<1>4. counts' \in [Listeners -> [Ips -> Nat]]
  BY PeerAssumption DEF CloseEvent, Listen, PeerInv
<1>5. PeerTypeOK'
  BY <1>4, <1>1, Zenon DEF CloseEvent, PeerInv
<1>6. ASSUME NEW l \in Listeners, NEW ip \in Ips PROVE counts'[l][ip] = Cardinality(Open(l, ip)')
  <2>1. counts[l][ip] = Cardinality(Open(l, ip)) /\ counts[l][ip] \in Nat
    BY DEF PeerInv, ConnectionsAreSeenOut, ClientCountIsExact
  <2>2. CASE notify[c] = l /\ IpOf[c] = ip
    <3>1. counts'[l][ip] = IF counts[l][ip] - 1 > 0 THEN counts[l][ip] - 1 ELSE 0
      BY <2>1, <2>2, PeerAssumption DEF CloseEvent, Listen, PeerInv
    <3>2. /\ Cardinality(Open(l, ip) \ {c}) = Cardinality(Open(l, ip)) - 1
          /\ Cardinality(Open(l, ip) \ {c}) \in Nat
      <4>1. IsFiniteSet(Open(l, ip)) /\ c \in Open(l, ip)
        BY <1>3, <2>2, OpenIsFinite, Zenon
      <4> QED
        BY <4>1, FS_RemoveElement, FS_CardinalityType, Zenon
    <3> HIDE DEF PeerTypeOK
    <3> QED
      BY <1>2, <2>1, <3>1, <3>2
  <2>3. CASE ~(notify[c] = l /\ IpOf[c] = ip)
    <3>1. counts'[l][ip] = counts[l][ip]
      BY <2>1, <2>3, PeerAssumption DEF CloseEvent, Listen, PeerInv
    <3>2. Open(l, ip)' = Open(l, ip)
      BY <1>2, <1>3, <2>3, Zenon
    <3> QED
      BY <2>1, <3>1, <3>2, Zenon
  <2> QED
    BY <2>2, <2>3
<1>7. ClientCountIsExact'
  BY <1>6 DEF ClientCountIsExact
<1>8. HandlerOutlivesCopies'
  BY <1>1, Zenon DEF PeerInv, ConnectionsAreSeenOut, HandlerOutlivesCopies, CloseEvent
<1> QED
  BY <1>5, <1>7, <1>8 DEF PeerInv, ConnectionsAreSeenOut

\* The listener is acquired before the connection counts.
LEMMA AcquireCounts ==
  ASSUME PeerInv, NEW c \in Conns, Acquire(c) PROVE PeerInv'
<1> USE DEF PeerTypeOK
<1>1. ASSUME NEW l, NEW ip PROVE Open(l, ip)' = Open(l, ip)
  BY <1>1, PeerAssumption, Zenon DEF Open, PeerInv, Acquire
<1> QED
  BY <1>1, Zenon DEF PeerInv, ConnectionsAreSeenOut, ClientCountIsExact, HandlerOutlivesCopies, Acquire

\* For any number of connections, clients and sessions, each session's counter holds exactly the
\* open connections it was told of, and no handler returns under its copies.
THEOREM ConnectionsAlwaysSeenOut == PeerSpec => []ConnectionsAreSeenOut
<1>1. PeerInit => PeerInv
  <2> SUFFICES ASSUME PeerInit PROVE PeerInv
    BY Zenon
  <2>1. ASSUME NEW l, NEW ip PROVE Open(l, ip) = {}
    BY Zenon DEF PeerInit, Open
  <2>2. \A l, ip : Cardinality(Open(l, ip)) = 0
    BY <2>1, FS_EmptySet, Zenon
  <2> QED
    BY <2>2, Zenon DEF PeerInit, PeerInv, PeerTypeOK, ConnectionsAreSeenOut, ClientCountIsExact,
                HandlerOutlivesCopies
<1>2. PeerInv /\ [PeerNext]_peerVars => PeerInv'
  <2> SUFFICES ASSUME PeerInv, [PeerNext]_peerVars PROVE PeerInv'
    BY Zenon
  <2> USE DEF PeerTypeOK, HandlerOutlivesCopies
  <2>1. ASSUME NEW l \in Listeners \cup {NoListener}, SetListener(l) PROVE PeerInv'
    BY <2>1, QuietStep, Zenon DEF SetListener, PeerInv, ConnectionsAreSeenOut
  <2>2. ASSUME NEW c \in Conns, ClientGone(c) PROVE PeerInv'
    BY <2>2, QuietStep, Zenon DEF ClientGone, PeerInv, ConnectionsAreSeenOut
  <2>3. ASSUME NEW c \in Conns, ShutdownTimesOut(c) PROVE PeerInv'
    BY <2>3, QuietStep, Zenon DEF ShutdownTimesOut, PeerInv, ConnectionsAreSeenOut
  <2>4. ASSUME NEW c \in Conns, WaitEnds(c) PROVE PeerInv'
    BY <2>4, QuietStep, Zenon DEF WaitEnds, PeerInv, ConnectionsAreSeenOut
  <2>5. ASSUME NEW c \in Conns, RoutingEnds(c) PROVE PeerInv'
    BY <2>5, QuietStep, Zenon DEF RoutingEnds, PeerInv, ConnectionsAreSeenOut
  <2>6. CASE UNCHANGED peerVars
    BY <2>6, QuietStep, Zenon DEF peerVars, PeerInv, ConnectionsAreSeenOut
  <2> HIDE DEF PeerTypeOK, HandlerOutlivesCopies
  <2> QED
    BY <2>1, <2>2, <2>3, <2>4, <2>5, <2>6, AcquireCounts, AcceptCounts, CloseCounts, Zenon DEF PeerNext
<1>3. PeerInv => ConnectionsAreSeenOut
  BY Zenon DEF PeerInv
<1> QED
  BY <1>1, <1>2, <1>3, PTL DEF PeerSpec

(***************************************************************************)
(* The probe responder, for any body, any other traffic on the socket and  *)
(* any order of its goroutines.                                            *)
(***************************************************************************)
ProbePcs ==
    {"starts", "awaits", "graceful", "readsOutq", "readsInfo", "polls", "judges", "sleeps",
     "aborting", "closing", "served", "done"}
ReadReasons == {"none", "baseline", "first", "written", "tick"}
Verdicts == {"none", "delivered", "stalled", "unknown", "aborted"}
SockStates == [sent : Nat, acked : Nat, others : Nat, inside : Nat, ends : Nat]
ProbeStates ==
    [pc : ProbePcs, why : ReadReasons, outq : Nat, acked : Nat, unacked : Nat, base : Nat,
     mark : Nat, lastAcked : Nat, lastProgress : Nat, writeDone : BOOLEAN,
     else : {"none", "stalled", "aborted"}, verdict : Verdicts, reported : Verdicts]

WriteStates ==
    [at : {"none", "running", "ok", "failed", "panicked"}, left : Nat, held : Nat, late : BOOLEAN]

ResponderTypeOK ==
    /\ flow \in FlowKinds
    /\ sock \in SockStates
    /\ write \in WriteStates
    /\ signals \in [raw : BOOLEAN, shutdown : BOOLEAN]
    /\ elapsed \in Nat
    /\ probe \in ProbeStates

\* The socket's counts, and where the response is.
SocketCounts ==
    /\ sock.acked <= sock.sent /\ sock.ends <= sock.sent
    /\ sock.sent = sock.inside + sock.others
    /\ ~Shared => sock.others = 0
    /\ flow # "opaque" => write.left + write.held + sock.inside = Size
    /\ flow # "h2" => write.held = 0
    /\ write.at = "ok" => write.left = 0

\* What the responder's place says of its locals.
ResponderPlace ==
    /\ probe.verdict = "none" <=> probe.pc \notin {"served", "done"}
    /\ probe.pc # "done" => probe.reported = "none"
    /\ probe.pc \in {"aborting", "closing", "graceful"} => probe.else # "none"
    /\ probe.why # "none" <=> probe.pc \in {"readsOutq", "readsInfo"}
    /\ probe.pc \in {"readsOutq", "readsInfo", "polls", "judges", "sleeps"} => flow # "opaque"
    /\ probe.why \in {"baseline", "first"} \/ probe.pc = "starts" => ~probe.writeDone
    /\ probe.writeDone => write.at = "ok"

\* The counts read since the write was done, old as they may be, cover the end of the response.
CountsCoverEnd ==
    /\ probe.acked <= sock.acked
    /\ probe.writeDone /\ flow # "h2" =>
          /\ probe.pc = "readsInfo" => sock.ends <= sock.acked + probe.outq
          /\ probe.why # "written" =>
                /\ sock.ends <= probe.mark
                /\ probe.unacked = 0 => sock.ends <= sock.acked

ResponderInv ==
    /\ ResponderTypeOK /\ SocketCounts /\ ResponderPlace /\ CountsCoverEnd
    /\ DeliveredIsAcknowledged /\ UnknownIsInTime /\ SessionIsSpared

\* A part of the response that enters the socket is counted once, and its end is the end of what
\* was sent.
LEMMA QueuedCounts ==
  ASSUME NEW s \in SockStates
  PROVE  /\ Queued(s) \in SockStates
         /\ Queued(s).sent = s.sent + 1 /\ Queued(s).inside = s.inside + 1
         /\ Queued(s).ends = s.sent + 1
         /\ Queued(s).acked = s.acked /\ Queued(s).others = s.others
<1>1. s.sent + 1 \in Nat /\ s.inside + 1 \in Nat
  BY DEF SockStates
<1> DEFINE a == [s EXCEPT !.sent = s.sent + 1]
<1> DEFINE b == [a EXCEPT !.inside = s.inside + 1]
<1>2. a \in SockStates
  BY <1>1, Zenon DEF SockStates
<1>3. b \in SockStates
  <2> HIDE DEF a
  <2> QED BY <1>1, <1>2, Zenon DEF SockStates
<1>4. [b EXCEPT !.ends = s.sent + 1] \in SockStates
  <2> HIDE DEF b
  <2> QED BY <1>1, <1>3, Zenon DEF SockStates
<1>5. Queued(s) = [b EXCEPT !.ends = s.sent + 1]
  BY Zenon DEF SockStates, Queued
<1>6. Queued(s).sent = s.sent + 1 /\ Queued(s).inside = s.inside + 1
         /\ Queued(s).ends = s.sent + 1
         /\ Queued(s).acked = s.acked /\ Queued(s).others = s.others
  BY Zenon DEF SockStates, Queued
<1> QED BY <1>4, <1>5, <1>6, Zenon

\* Bytes of other streams move the counts of the socket, not those of the response.
LEMMA OthersUpdate ==
  ASSUME NEW s \in SockStates
  PROVE  LET t == [s EXCEPT !.sent = @ + 1, !.others = @ + 1]
         IN /\ t \in SockStates /\ t.sent = s.sent + 1 /\ t.others = s.others + 1
            /\ t.inside = s.inside /\ t.ends = s.ends /\ t.acked = s.acked
<1> DEFINE a == [s EXCEPT !.sent = s.sent + 1]
<1>1. s.sent + 1 \in Nat /\ s.others + 1 \in Nat
  BY DEF SockStates
<1>2. a \in SockStates
  BY <1>1, Zenon DEF SockStates
<1>3. [a EXCEPT !.others = s.others + 1] \in SockStates
  <2> HIDE DEF a
  <2> QED BY <1>1, <1>2, Zenon DEF SockStates
<1> QED BY <1>3, Zenon DEF SockStates

\* Beginning to read the socket's state changes only the responder's place and why it reads.
LEMMA ReadsStateFields ==
  ASSUME NEW p \in ProbeStates, NEW why \in ReadReasons
  PROVE  LET q == ReadsState(p, why)
         IN /\ q \in ProbeStates /\ q.pc = "readsOutq" /\ q.why = why
            /\ q.outq = p.outq /\ q.acked = p.acked /\ q.unacked = p.unacked /\ q.base = p.base
            /\ q.mark = p.mark /\ q.writeDone = p.writeDone /\ q.else = p.else
            /\ q.verdict = p.verdict /\ q.reported = p.reported
<1> DEFINE a == [p EXCEPT !.pc = "readsOutq"]
<1>1. a \in ProbeStates
  BY Zenon DEF ProbeStates, ProbePcs
<1>2. [a EXCEPT !.why = why] \in ProbeStates
  <2> HIDE DEF a
  <2> QED BY <1>1, Zenon DEF ProbeStates
<1>3. ReadsState(p, why) = [a EXCEPT !.why = why]
  BY Zenon DEF ReadsState
<1> QED BY <1>2, <1>3, Zenon DEF ReadsState, ProbeStates

\* Ending the read takes over the two counts, the acknowledged bytes as they are now, the queued
\* ones as they were.
LEMMA SeenFields ==
  ASSUME NEW p \in ProbeStates, NEW at \in ProbePcs, sock \in SockStates
  PROVE  LET q == Seen(p, at)
         IN /\ q \in ProbeStates /\ q.pc = at /\ q.why = "none"
            /\ q.acked = sock.acked /\ q.unacked = p.outq /\ q.base = p.base
            /\ q.mark = p.mark /\ q.writeDone = p.writeDone /\ q.else = p.else
            /\ q.verdict = p.verdict /\ q.reported = p.reported
<1> DEFINE a == [p EXCEPT !.pc = at]
<1> DEFINE b == [a EXCEPT !.why = "none"]
<1> DEFINE c == [b EXCEPT !.outq = 0]
<1> DEFINE d == [c EXCEPT !.acked = sock.acked]
<1> DEFINE e == [d EXCEPT !.unacked = p.outq]
<1>0. sock.acked \in Nat /\ p.outq \in Nat
  BY Zenon DEF ProbeStates, SockStates
<1>1. a \in ProbeStates
  BY Zenon DEF ProbeStates
<1>2. b \in ProbeStates
  <2> HIDE DEF a
  <2> QED BY <1>1, Zenon DEF ProbeStates, ReadReasons
<1>3. c \in ProbeStates
  <2> HIDE DEF b
  <2> QED BY <1>2, Zenon DEF ProbeStates
<1>4. d \in ProbeStates
  <2> HIDE DEF c
  <2> QED BY <1>0, <1>3, Zenon DEF ProbeStates
<1>5. e \in ProbeStates
  <2> HIDE DEF d
  <2> QED BY <1>0, <1>4, Zenon DEF ProbeStates
<1>6. Seen(p, at) = e
  BY Zenon DEF Seen
<1>7. LET q == Seen(p, at)
         IN /\ q.pc = at /\ q.why = "none"
            /\ q.acked = sock.acked /\ q.unacked = p.outq /\ q.base = p.base
            /\ q.mark = p.mark /\ q.writeDone = p.writeDone /\ q.else = p.else
            /\ q.verdict = p.verdict /\ q.reported = p.reported
  BY Zenon DEF Seen, ProbeStates
<1> HIDE DEF e
<1> QED BY <1>5, <1>6, <1>7, Zenon

\* A responder that has only a place is well typed.
LEMMA ResponderAtFields ==
  ASSUME NEW at \in ProbePcs
  PROVE  ResponderAt(at) \in ProbeStates
BY Zenon DEF ResponderAt, ProbeStates, Verdicts, ReadReasons

\* A responder that has decided keeps nothing but its verdict.
LEMMA DecidedFields ==
  ASSUME NEW v \in Verdicts
  PROVE  LET q == Decided(v)
         IN /\ q \in ProbeStates /\ q.pc = "served" /\ q.verdict = v /\ q.why = "none"
            /\ q.reported = "none" /\ q.writeDone = FALSE /\ q.acked = 0
<1>1. ResponderAt("served") \in ProbeStates
  BY ResponderAtFields, Zenon DEF ProbePcs
<1>2. Decided(v) \in ProbeStates
  BY <1>1, Zenon DEF Decided, ProbeStates
<1> QED BY <1>2, Zenon DEF Decided, ResponderAt

\* The invariant holds before the probe starts.
LEMMA ResponderInit_Inv == ResponderInit => ResponderInv
<1> SUFFICES ASSUME ResponderInit PROVE ResponderInv
  BY Zenon
<1>1. ResponderTypeOK
  BY ResponderAssumption, ResponderAtFields, Zenon DEF ResponderInit, ResponderTypeOK, SockStates, WriteStates, FlowKinds, ProbePcs
<1> QED
  BY <1>1, ResponderAssumption DEF ResponderInit, ResponderInv, SocketCounts,
   ResponderPlace, CountsCoverEnd, DeliveredIsAcknowledged, UnknownIsInTime, SessionIsSpared,
   ResponderAt, Shared

FieldsTyped ==
    /\ sock.sent \in Nat /\ sock.acked \in Nat /\ sock.others \in Nat /\ sock.inside \in Nat
    /\ sock.ends \in Nat /\ write.left \in Nat /\ write.held \in Nat
    /\ probe.outq \in Nat /\ probe.acked \in Nat /\ probe.unacked \in Nat /\ probe.base \in Nat
    /\ probe.mark \in Nat

\* What the type of the records says of each field.
LEMMA TypedFields == ResponderTypeOK => FieldsTyped
BY Zenon DEF ResponderTypeOK, FieldsTyped, SockStates, WriteStates, ProbeStates

\* the network
LEMMA NetworkKeeps ==
  ASSUME ResponderInv,
         \/ WriteChunk \/ H2Flushes \/ (\E r \in {"ok", "failed", "panicked"} : WriteReturns(r))
         \/ ClientAcks \/ OtherStreamSends \/ ProbeTime \/ ShutDown
  PROVE  ResponderInv'
<1> DEFINE Rest == SocketCounts /\ ResponderPlace /\ CountsCoverEnd
                   /\ DeliveredIsAcknowledged /\ UnknownIsInTime /\ SessionIsSpared
<1>0. ResponderTypeOK /\ Rest /\ FieldsTyped
  BY TypedFields, Zenon DEF ResponderInv
<1> SUFFICES ResponderTypeOK' /\ Rest'
  BY Zenon DEF ResponderInv
<1>t. sock \in SockStates /\ write \in WriteStates
  BY <1>0, Zenon DEF ResponderTypeOK
<1> USE DEF FlowKinds, Shared, Observed
<1>1. CASE WriteChunk
  <2>1. /\ write'.left = write.left - 1 /\ write'.left \in Nat /\ write'.at = write.at /\ write'.late = write.late
        /\ write'.held = IF flow = "h2" THEN write.held + 1 ELSE write.held
        /\ write' \in WriteStates
    <3>1. write.left - 1 \in Nat /\ (IF flow = "h2" THEN write.held + 1 ELSE write.held) \in Nat
      BY <1>t, <1>1 DEF WriteChunk, WriteStates
    <3>2. PICK n \in Nat, m \in Nat :
            n = write.left - 1 /\ m = IF flow = "h2" THEN write.held + 1 ELSE write.held
      BY <3>1, Zenon
    <3>3. write' = [write EXCEPT !.left = n, !.held = m]
      BY <1>1, <3>2, Zenon DEF WriteChunk
    <3>4. /\ write' \in WriteStates /\ write'.left = n /\ write'.held = m
          /\ write'.at = write.at /\ write'.late = write.late
      <4>1. LET v == [write EXCEPT !.left = n, !.held = m]
            IN v \in WriteStates /\ v.left = n /\ v.held = m /\ v.at = write.at /\ v.late = write.late
        <5> DEFINE a == [write EXCEPT !.left = n]
        <5>1. a \in WriteStates
          BY <1>t, Zenon DEF WriteStates
        <5>2. [a EXCEPT !.held = m] \in WriteStates
          <6> HIDE DEF a
          <6> QED BY <5>1, Zenon DEF WriteStates
        <5> QED BY <1>t, <5>2, Zenon DEF WriteStates
      <4> QED BY <3>3, <4>1, Zenon
    <3> QED BY <3>2, <3>4, Zenon
  <2>2. CASE flow \in {"own", "smux"}
    <3>1. /\ sock' \in SockStates
          /\ sock'.sent = sock.sent + 1 /\ sock'.inside = sock.inside + 1 /\ sock'.ends = sock.sent + 1
          /\ sock'.acked = sock.acked /\ sock'.others = sock.others
      BY <1>t, <1>1, <2>2, QueuedCounts, Zenon DEF WriteChunk
    <3>2. ResponderTypeOK'
      BY <1>0, <1>1, <2>1, <3>1, Zenon DEF WriteChunk, ResponderTypeOK
    <3>3. flow' = flow /\ probe' = probe /\ signals' = signals /\ write.at = "running" /\ probe.verdict = "none"
      BY <1>1, Zenon DEF WriteChunk
    <3>a. FieldsTyped /\ FieldsTyped' /\ Rest
      BY <1>0, <2>1, <2>2, <3>1, <3>2, <3>3, Zenon DEF FieldsTyped, ResponderTypeOK, SockStates, WriteStates, ProbeStates
    <3>b. SocketCounts'
      BY <3>a, <2>1, <2>2, <3>1, <3>2, <3>3 DEF FieldsTyped, SocketCounts, ResponderPlace, CountsCoverEnd
    <3>c. ResponderPlace'
      BY <3>a, <2>1, <2>2, <3>1, <3>2, <3>3, Zenon DEF FieldsTyped, SocketCounts, ResponderPlace, CountsCoverEnd
    <3>d. CountsCoverEnd'
      BY <3>a, <2>1, <2>2, <3>1, <3>2, <3>3, Zenon DEF FieldsTyped, SocketCounts, ResponderPlace, CountsCoverEnd
    <3>e. (DeliveredIsAcknowledged /\ UnknownIsInTime /\ SessionIsSpared)'
      BY <3>a, <2>1, <2>2, <3>1, <3>2, <3>3, Zenon DEF DeliveredIsAcknowledged, UnknownIsInTime, SessionIsSpared, ResponderPlace
    <3> QED BY <3>b, <3>c, <3>d, <3>e, <2>1, <2>2, <3>1, <3>2, <3>3, Zenon
  <2>3. CASE flow \notin {"own", "smux"}
    <3>1. sock' = sock
      BY <1>1, <2>3, Zenon DEF WriteChunk
    <3>2. ResponderTypeOK'
      BY <1>0, <1>1, <2>1, <3>1, Zenon DEF WriteChunk, ResponderTypeOK
    <3>3. flow' = flow /\ probe' = probe /\ signals' = signals /\ write.at = "running" /\ probe.verdict = "none"
      BY <1>1 DEF WriteChunk
    <3>a. FieldsTyped /\ FieldsTyped' /\ Rest
      BY <1>0, <2>1, <2>3, <3>1, <3>2, <3>3, Zenon DEF FieldsTyped, ResponderTypeOK, SockStates, WriteStates, ProbeStates
    <3>b. SocketCounts'
      <4>1. flow \in FlowKinds
        BY <1>0, Zenon DEF ResponderTypeOK
      <4> QED BY <4>1, <3>a, <2>1, <2>3, <3>1, <3>2, <3>3 DEF FieldsTyped, SocketCounts, ResponderPlace, CountsCoverEnd
    <3>c. ResponderPlace'
      BY <3>a, <2>1, <2>3, <3>1, <3>2, <3>3, Zenon DEF FieldsTyped, SocketCounts, ResponderPlace, CountsCoverEnd
    <3>d. CountsCoverEnd'
      BY <3>a, <2>1, <2>3, <3>1, <3>2, <3>3, Zenon DEF FieldsTyped, SocketCounts, ResponderPlace, CountsCoverEnd
    <3>e. (DeliveredIsAcknowledged /\ UnknownIsInTime /\ SessionIsSpared)'
      BY <3>a, <2>1, <2>3, <3>1, <3>2, <3>3, Zenon DEF DeliveredIsAcknowledged, UnknownIsInTime, SessionIsSpared, ResponderPlace
    <3> QED BY <3>b, <3>c, <3>d, <3>e, <2>1, <2>3, <3>1, <3>2, <3>3, Zenon
  <2> QED BY <2>2, <2>3, Zenon
<1>2. CASE H2Flushes
  <2>1. /\ write'.held = write.held - 1 /\ write'.held \in Nat /\ write'.at = write.at /\ write'.late = write.late
        /\ write'.left = write.left
        /\ write' \in WriteStates
    BY <1>t, <1>2 DEF H2Flushes, WriteStates
  <2>2. /\ sock' \in SockStates
        /\ sock'.sent = sock.sent + 1 /\ sock'.inside = sock.inside + 1 /\ sock'.ends = sock.sent + 1
        /\ sock'.acked = sock.acked /\ sock'.others = sock.others
    BY <1>t, <1>2, QueuedCounts, Zenon DEF H2Flushes
  <2>3. flow' = flow /\ probe' = probe /\ signals' = signals /\ elapsed' = elapsed /\ probe.verdict = "none" /\ write.held > 0
    BY <1>2, Zenon DEF H2Flushes
  <2>4. ResponderTypeOK'
    BY <1>0, <2>1, <2>2, <2>3, Zenon DEF ResponderTypeOK
  <2>a. FieldsTyped /\ FieldsTyped' /\ Rest
    BY <1>0, <2>1, <2>2, <2>3, <2>4, Zenon DEF FieldsTyped, ResponderTypeOK, SockStates, WriteStates, ProbeStates
  <2>b. SocketCounts'
    BY <2>a, <2>1, <2>2, <2>3, <2>4 DEF FieldsTyped, SocketCounts, ResponderPlace, CountsCoverEnd
  <2>c. ResponderPlace'
    BY <2>a, <2>1, <2>2, <2>3, <2>4, Zenon DEF FieldsTyped, SocketCounts, ResponderPlace, CountsCoverEnd
  <2>d. CountsCoverEnd'
    BY <2>a, <2>1, <2>2, <2>3, <2>4 DEF FieldsTyped, SocketCounts, ResponderPlace, CountsCoverEnd
  <2>e. (DeliveredIsAcknowledged /\ UnknownIsInTime /\ SessionIsSpared)'
    BY <2>a, <2>1, <2>2, <2>3, <2>4, Zenon DEF DeliveredIsAcknowledged, UnknownIsInTime, SessionIsSpared, ResponderPlace
  <2> QED BY <2>b, <2>c, <2>d, <2>e, <2>1, <2>2, <2>3, <2>4, Zenon
<1>3. ASSUME NEW r \in {"ok", "failed", "panicked"}, WriteReturns(r) PROVE ResponderTypeOK' /\ Rest'
  <2>1. /\ write'.at = r /\ write'.left = write.left /\ write'.held = write.held
        /\ r = "ok" => write.left = 0
        /\ write.at = "running"
        /\ write' \in WriteStates
    <3>1. PICK b \in BOOLEAN : write' = [write EXCEPT !.at = r, !.late = b]
      <4>1. CASE elapsed >= MaxWait
        <5>1. write' = [write EXCEPT !.at = r, !.late = TRUE]
          BY <1>3, <4>1, Zenon DEF WriteReturns
        <5> QED BY <5>1, Zenon
      <4>2. CASE ~(elapsed >= MaxWait)
        <5>1. write' = [write EXCEPT !.at = r, !.late = FALSE]
          <6>1. elapsed \in Nat /\ MaxWait \in Nat
            BY <1>0, ResponderAssumption, Zenon DEF ResponderTypeOK
          <6>2. (elapsed >= MaxWait) = FALSE
            BY <4>2, <6>1
          <6> QED BY <1>3, <6>2, Zenon DEF WriteReturns
        <5> QED BY <5>1, Zenon
      <4> QED BY <4>1, <4>2, Zenon
    <3>2. LET v == [write EXCEPT !.at = r, !.late = b]
          IN v \in WriteStates /\ v.left = write.left /\ v.held = write.held /\ v.at = r /\ v.late = b
      <4> DEFINE c == [write EXCEPT !.at = r]
      <4>1. c \in WriteStates
        BY <1>t, Zenon DEF WriteStates
      <4>2. [c EXCEPT !.late = b] \in WriteStates
        <5> HIDE DEF c
        <5> QED BY <4>1, Zenon DEF WriteStates
      <4> QED BY <1>t, <4>2, Zenon DEF WriteStates
    <3>3. write' \in WriteStates /\ write'.left = write.left /\ write'.held = write.held /\ write'.at = r
      BY <3>1, <3>2, Zenon
    <3> QED BY <1>3, <3>3, Zenon DEF WriteReturns
  <2>3. flow' = flow /\ probe' = probe /\ signals' = signals /\ elapsed' = elapsed /\ probe.verdict = "none" /\ sock' = sock
    BY <1>3, Zenon DEF WriteReturns
  <2>4. ResponderTypeOK'
    BY <1>0, <2>1, <2>3, Zenon DEF ResponderTypeOK
  <2>a. FieldsTyped /\ FieldsTyped' /\ Rest
    BY <1>0, <2>1, <2>3, <2>4, Zenon DEF FieldsTyped, ResponderTypeOK, SockStates, WriteStates, ProbeStates
  <2>b. SocketCounts'
    BY <2>a, <2>1, <2>3, <2>4, Zenon DEF FieldsTyped, SocketCounts, ResponderPlace, CountsCoverEnd
  <2>c. ResponderPlace'
    BY <2>a, <2>1, <2>3, <2>4, Zenon DEF FieldsTyped, SocketCounts, ResponderPlace, CountsCoverEnd
  <2>d. CountsCoverEnd'
    BY <2>a, <2>1, <2>3, <2>4, Zenon DEF FieldsTyped, SocketCounts, ResponderPlace, CountsCoverEnd
  <2>e. (DeliveredIsAcknowledged /\ UnknownIsInTime /\ SessionIsSpared)'
    BY <2>a, <2>1, <2>3, <2>4, Zenon DEF DeliveredIsAcknowledged, UnknownIsInTime, SessionIsSpared, ResponderPlace
  <2> QED BY <2>b, <2>c, <2>d, <2>e, <2>1, <2>3, <2>4, Zenon
<1>4. CASE ClientAcks
  <2>2. /\ sock' \in SockStates
        /\ sock'.sent = sock.sent /\ sock'.inside = sock.inside /\ sock'.ends = sock.ends
        /\ sock'.acked = sock.acked + 1 /\ sock'.others = sock.others /\ sock.acked < sock.sent
    BY <1>t, <1>4 DEF ClientAcks, SockStates
  <2>3. flow' = flow /\ probe' = probe /\ signals' = signals /\ elapsed' = elapsed /\ probe.verdict = "none" /\ write' = write
    BY <1>4, Zenon DEF ClientAcks
  <2>4. ResponderTypeOK'
    BY <1>0, <2>2, <2>3, Zenon DEF ResponderTypeOK
  <2>a. FieldsTyped /\ FieldsTyped' /\ Rest
    BY <1>0, <2>2, <2>3, <2>4, Zenon DEF FieldsTyped, ResponderTypeOK, SockStates, WriteStates, ProbeStates
  <2>b. SocketCounts'
    BY <2>a, <2>2, <2>3, <2>4 DEF FieldsTyped, SocketCounts, ResponderPlace, CountsCoverEnd
  <2>c. ResponderPlace'
    BY <2>a, <2>2, <2>3, <2>4, Zenon DEF FieldsTyped, SocketCounts, ResponderPlace, CountsCoverEnd
  <2>d. CountsCoverEnd'
    BY <2>a, <2>2, <2>3, <2>4 DEF FieldsTyped, SocketCounts, ResponderPlace, CountsCoverEnd
  <2>e. (DeliveredIsAcknowledged /\ UnknownIsInTime /\ SessionIsSpared)'
    BY <2>a, <2>2, <2>3, <2>4, Zenon DEF DeliveredIsAcknowledged, UnknownIsInTime, SessionIsSpared, ResponderPlace
  <2> QED BY <2>b, <2>c, <2>d, <2>e, <2>2, <2>3, <2>4, Zenon
<1>5. CASE OtherStreamSends
  <2>2. /\ sock' \in SockStates
        /\ sock'.sent = sock.sent + 1 /\ sock'.inside = sock.inside /\ sock'.ends = sock.ends
        /\ sock'.acked = sock.acked /\ sock'.others = sock.others + 1
    BY <1>t, <1>5, OthersUpdate, Zenon DEF OtherStreamSends
  <2>3. flow' = flow /\ probe' = probe /\ signals' = signals /\ elapsed' = elapsed /\ probe.verdict = "none" /\ write' = write /\ flow \in {"smux", "h2"}
    BY <1>5, Zenon DEF OtherStreamSends
  <2>4. ResponderTypeOK'
    BY <1>0, <2>2, <2>3, Zenon DEF ResponderTypeOK
  <2>a. FieldsTyped /\ FieldsTyped' /\ Rest
    BY <1>0, <2>2, <2>3, <2>4, Zenon DEF FieldsTyped, ResponderTypeOK, SockStates, WriteStates, ProbeStates
  <2>b. SocketCounts'
    BY <2>a, <2>2, <2>3, <2>4 DEF FieldsTyped, SocketCounts, ResponderPlace, CountsCoverEnd
  <2>c. ResponderPlace'
    BY <2>a, <2>2, <2>3, <2>4, Zenon DEF FieldsTyped, SocketCounts, ResponderPlace, CountsCoverEnd
  <2>d. CountsCoverEnd'
    BY <2>a, <2>2, <2>3, <2>4, Zenon DEF FieldsTyped, SocketCounts, ResponderPlace, CountsCoverEnd
  <2>e. (DeliveredIsAcknowledged /\ UnknownIsInTime /\ SessionIsSpared)'
    BY <2>a, <2>2, <2>3, <2>4, Zenon DEF DeliveredIsAcknowledged, UnknownIsInTime, SessionIsSpared, ResponderPlace
  <2> QED BY <2>b, <2>c, <2>d, <2>e, <2>2, <2>3, <2>4, Zenon
<1>6. CASE ProbeTime
  BY <1>0, <1>6 DEF ProbeTime, ResponderTypeOK, SocketCounts, ResponderPlace, CountsCoverEnd, DeliveredIsAcknowledged, UnknownIsInTime, SessionIsSpared
<1>7. CASE ShutDown
  <2>1. signals' \in [raw : BOOLEAN, shutdown : BOOLEAN] /\ signals'.raw = signals.raw
    BY <1>0, <1>7, Zenon DEF ShutDown, ResponderTypeOK
  <2>2. UNCHANGED <<flow, sock, write, elapsed, probe>>
    BY <1>7, Zenon DEF ShutDown
  <2>a. FieldsTyped /\ FieldsTyped' /\ Rest
    BY <1>0, <2>1, <2>2, Zenon DEF FieldsTyped, ResponderTypeOK, SockStates, WriteStates, ProbeStates
  <2>b. SocketCounts'
    BY <2>a, <2>1, <2>2, Zenon DEF FieldsTyped, SocketCounts, ResponderPlace, CountsCoverEnd
  <2>c. ResponderPlace'
    BY <2>a, <2>1, <2>2, Zenon DEF FieldsTyped, SocketCounts, ResponderPlace, CountsCoverEnd
  <2>d. CountsCoverEnd'
    BY <2>a, <2>1, <2>2, Zenon DEF FieldsTyped, SocketCounts, ResponderPlace, CountsCoverEnd
  <2>e. (DeliveredIsAcknowledged /\ UnknownIsInTime /\ SessionIsSpared)'
    BY <2>a, <2>1, <2>2, Zenon DEF DeliveredIsAcknowledged, UnknownIsInTime, SessionIsSpared, ResponderPlace
  <2>f. ResponderTypeOK'
    BY <1>0, <2>1, <2>2, Zenon DEF ResponderTypeOK
  <2> QED BY <2>b, <2>c, <2>d, <2>e, <2>f, Zenon
<1> QED BY <1>1, <1>2, <1>3, <1>4, <1>5, <1>6, <1>7, Zenon

\* A step of the responder that leaves socket and clock alone has only its own part to answer for.
LEMMA ResponderKeeps ==
  ASSUME ResponderInv, UNCHANGED <<flow, sock, elapsed>>, BodyStarts \/ UNCHANGED write,
         signals' \in [raw : BOOLEAN, shutdown : BOOLEAN], Shared => ~signals'.raw,
         probe' \in ProbeStates, ResponderPlace', CountsCoverEnd',
         DeliveredIsAcknowledged', UnknownIsInTime'
  PROVE  ResponderInv'
<1>1. /\ write' \in WriteStates /\ write'.left = write.left /\ write'.held = write.held
      /\ write'.at = "ok" => write.at = "ok"
  BY DEF ResponderInv, ResponderTypeOK, BodyStarts, WriteStates
<1>2. ResponderTypeOK'
  BY <1>1, Zenon DEF ResponderInv, ResponderTypeOK
<1>3. SocketCounts'
  BY <1>1, Zenon DEF ResponderInv, SocketCounts, Shared
<1>4. SessionIsSpared'
  BY Zenon DEF SessionIsSpared, Shared
<1> QED BY <1>2, <1>3, <1>4, Zenon DEF ResponderInv

\* A verdict that is earned at the moment it is reached keeps the invariant.
LEMMA DecidingKeeps ==
  ASSUME ResponderInv, NEW v \in Verdicts \ {"none"}, probe' = Decided(v),
         UNCHANGED <<flow, sock, write, elapsed>>,
         signals' \in [raw : BOOLEAN, shutdown : BOOLEAN], Shared => ~signals'.raw,
         v = "delivered" => \/ sock.inside = Size /\ sock.acked >= sock.ends
                            \/ flow = "h2" /\ sock.others > 0,
         v = "unknown" => write.at = "ok" /\ ~write.late
  PROVE  ResponderInv'
<1>1. /\ probe' \in ProbeStates /\ probe'.pc = "served" /\ probe'.verdict = v /\ probe'.why = "none"
      /\ probe'.reported = "none" /\ probe'.writeDone = FALSE /\ probe'.acked = 0
  BY DecidedFields, Zenon
<1>2. ResponderPlace'
  BY <1>1, Zenon DEF ResponderPlace
<1>3. CountsCoverEnd'
  BY <1>1 DEF ResponderInv, ResponderTypeOK, CountsCoverEnd, SockStates
<1>4. DeliveredIsAcknowledged' /\ UnknownIsInTime'
  BY <1>1, Zenon DEF DeliveredIsAcknowledged, UnknownIsInTime
<1> QED BY <1>1, <1>2, <1>3, <1>4, ResponderKeeps, Zenon

\* abortWrite
LEMMA AbortingKeeps ==
  ASSUME ResponderInv, NEW p, NEW e \in {"stalled", "aborted"}, AbortsWrite(p, e),
         p.writeDone = probe.writeDone, UNCHANGED <<flow, sock, write, elapsed>>
  PROVE  ResponderInv'
<1>1. /\ signals' \in [raw : BOOLEAN, shutdown : BOOLEAN] /\ (Shared => ~signals'.raw)
  BY Zenon DEF AbortsWrite, ResponderInv, ResponderTypeOK, SessionIsSpared
<1>2. CASE probe' = Decided(e)
  BY <1>1, <1>2, DecidingKeeps, Zenon DEF Verdicts
<1>3. CASE probe' = [ResponderAt("aborting") EXCEPT !.else = e]
  <2>1. ResponderAt("aborting") \in ProbeStates
    BY ResponderAtFields, Zenon DEF ProbePcs
  <2>2. probe' \in ProbeStates
    BY <1>3, <2>1, Zenon DEF ProbeStates
  <2>3. /\ probe'.pc = "aborting" /\ probe'.else = e /\ probe'.verdict = "none" /\ probe'.why = "none"
        /\ probe'.reported = "none" /\ probe'.writeDone = FALSE /\ probe'.acked = 0
    BY <1>3, Zenon DEF ResponderAt
  <2>4. ResponderPlace'
    BY <2>3, Zenon DEF ResponderPlace
  <2>5. CountsCoverEnd'
    BY <2>3 DEF ResponderInv, ResponderTypeOK, CountsCoverEnd, SockStates
  <2>6. DeliveredIsAcknowledged' /\ UnknownIsInTime'
    BY <2>3, Zenon DEF DeliveredIsAcknowledged, UnknownIsInTime
  <2> QED BY <1>1, <2>2, <2>4, <2>5, <2>6, ResponderKeeps, Zenon
<1> QED BY <1>2, <1>3, Zenon DEF AbortsWrite

\* respond: the body's write starts, or the baseline is read first.
LEMMA StartKeeps ==
  ASSUME ResponderInv, RespondStarts
  PROVE  ResponderInv'
<1>0. /\ probe \in ProbeStates /\ sock \in SockStates /\ probe.pc = "starts" /\ flow \in FlowKinds
      /\ probe.verdict = "none" /\ probe.reported = "none" /\ probe.writeDone = FALSE
      /\ probe.acked <= sock.acked /\ probe.acked \in Nat /\ sock.acked \in Nat
      /\ signals \in [raw : BOOLEAN, shutdown : BOOLEAN] /\ (Shared => ~signals.raw)
  BY Zenon DEF RespondStarts, ResponderInv, ResponderTypeOK, ResponderPlace, CountsCoverEnd, ProbeStates,
         SockStates, SessionIsSpared
<1>1. UNCHANGED <<flow, sock, elapsed, signals>> /\ (BodyStarts \/ UNCHANGED write)
  BY Zenon DEF RespondStarts
<1>2. /\ probe' \in ProbeStates /\ probe'.verdict = "none" /\ probe'.reported = "none"
      /\ probe'.writeDone = FALSE /\ probe'.acked <= sock.acked
      /\ \/ probe'.pc = "awaits" /\ probe'.why = "none"
         \/ probe'.pc = "readsOutq" /\ probe'.why # "none" /\ flow # "opaque"
  <2>1. CASE probe' = ResponderAt("awaits")
    <3>1. ResponderAt("awaits") \in ProbeStates
      BY ResponderAtFields, Zenon DEF ProbePcs
    <3> QED BY <1>0, <2>1, <3>1 DEF ResponderAt
  <2>2. CASE flow = "own" /\ probe' = ReadsState(probe, "first")
    BY <1>0, <2>2, ReadsStateFields DEF ReadReasons
  <2>3. CASE Shared /\ probe' = ReadsState(probe, "baseline")
    BY <1>0, <2>3, ReadsStateFields DEF ReadReasons, Shared
  <2> QED BY <2>1, <2>2, <2>3, Zenon DEF RespondStarts
<1>3. ResponderPlace'
  BY <1>1, <1>2, Zenon DEF ResponderPlace
<1>4. CountsCoverEnd'
  BY <1>1, <1>2, Zenon DEF CountsCoverEnd
<1>5. DeliveredIsAcknowledged' /\ UnknownIsInTime'
  BY <1>2, Zenon DEF DeliveredIsAcknowledged, UnknownIsInTime
<1> QED BY <1>0, <1>1, <1>2, <1>3, <1>4, <1>5, ResponderKeeps, Zenon

\* Steps of the poll loop that neither decide nor touch the write.
LEMMA LoopKeeps ==
  ASSUME ResponderInv, UNCHANGED <<flow, sock, write, signals, elapsed>>,
         probe' \in ProbeStates, probe'.verdict = "none", probe'.reported = "none",
         probe'.pc \in {"readsOutq", "readsInfo", "polls", "judges", "sleeps"},
         flow # "opaque", probe'.why # "none" <=> probe'.pc \in {"readsOutq", "readsInfo"},
         probe'.why \in {"baseline", "first"} => ~probe'.writeDone,
         probe'.writeDone => write.at = "ok", CountsCoverEnd'
  PROVE  ResponderInv'
<1>1. ResponderPlace'
  BY Zenon DEF ResponderPlace
<1>2. DeliveredIsAcknowledged' /\ UnknownIsInTime'
  BY Zenon DEF DeliveredIsAcknowledged, UnknownIsInTime
<1>3. signals' \in [raw : BOOLEAN, shutdown : BOOLEAN] /\ (Shared => ~signals'.raw)
  BY Zenon DEF ResponderInv, ResponderTypeOK, SessionIsSpared
<1> QED BY <1>1, <1>2, <1>3, ResponderKeeps, Zenon

\* The first of the two reads: the queued bytes.
LEMMA ReadOutqKeeps ==
  ASSUME ResponderInv, ReadOutq
  PROVE  ResponderInv'
<1>0. /\ probe \in ProbeStates /\ sock \in SockStates /\ probe.pc = "readsOutq" /\ probe.verdict = "none"
      /\ probe.reported = "none" /\ flow # "opaque" /\ probe.why # "none"
      /\ probe.why \in {"baseline", "first"} => ~probe.writeDone
      /\ probe.writeDone => write.at = "ok"
      /\ sock.acked <= sock.sent /\ sock.ends <= sock.sent
  BY Zenon DEF ReadOutq, ResponderInv, ResponderTypeOK, ResponderPlace, SocketCounts
<1>1. UNCHANGED <<flow, sock, write, signals, elapsed>>
  BY Zenon DEF ReadOutq
<1>2. sock.sent - sock.acked \in Nat /\ sock.sent \in Nat /\ sock.acked \in Nat /\ sock.ends \in Nat
  BY <1>0 DEF SockStates
<1> DEFINE a == [probe EXCEPT !.pc = "readsInfo"]
<1>3. a \in ProbeStates
  BY <1>0, Zenon DEF ProbeStates, ProbePcs
<1>4. [a EXCEPT !.outq = sock.sent - sock.acked] \in ProbeStates
  <2> HIDE DEF a
  <2> QED BY <1>2, <1>3, Zenon DEF ProbeStates
<1>5. probe' = [a EXCEPT !.outq = sock.sent - sock.acked]
  BY Zenon DEF ReadOutq
<1>6. /\ probe'.pc = "readsInfo" /\ probe'.outq = sock.sent - sock.acked /\ probe'.why = probe.why
      /\ probe'.acked = probe.acked /\ probe'.unacked = probe.unacked /\ probe'.mark = probe.mark
      /\ probe'.writeDone = probe.writeDone /\ probe'.verdict = "none" /\ probe'.reported = "none"
  BY <1>0, <1>5, Zenon DEF ProbeStates
<1>7. CountsCoverEnd'
  BY <1>0, <1>1, <1>2, <1>6 DEF ResponderInv, CountsCoverEnd
<1> HIDE DEF a
<1> QED BY <1>0, <1>1, <1>4, <1>5, <1>6, <1>7, LoopKeeps, Zenon

\* The poll's timer.
LEMMA PollTickKeeps ==
  ASSUME ResponderInv, PollTick
  PROVE  ResponderInv'
<1>0. /\ probe \in ProbeStates /\ probe.pc = "sleeps" /\ probe.verdict = "none"
      /\ probe.reported = "none" /\ flow # "opaque"
      /\ probe.writeDone => write.at = "ok"
  BY Zenon DEF PollTick, ResponderInv, ResponderTypeOK, ResponderPlace
<1>1. UNCHANGED <<flow, sock, write, signals, elapsed>>
  BY Zenon DEF PollTick
<1>2. /\ probe' \in ProbeStates /\ probe'.pc = "readsOutq" /\ probe'.why = "tick"
      /\ probe'.acked = probe.acked /\ probe'.unacked = probe.unacked /\ probe'.mark = probe.mark
      /\ probe'.writeDone = probe.writeDone /\ probe'.verdict = "none" /\ probe'.reported = "none"
  BY <1>0, ReadsStateFields DEF PollTick, ReadReasons
<1>3. probe.why # "written"
  BY <1>0, Zenon DEF ResponderInv, ResponderPlace
<1>4. CountsCoverEnd'
  BY <1>0, <1>1, <1>2, <1>3, Zenon DEF ResponderInv, CountsCoverEnd
<1> QED BY <1>0, <1>1, <1>2, <1>4, LoopKeeps, Zenon

\* The second read: with the older count of queued bytes it covers the end of the response,
\* because bytes leave the queue only by being acknowledged.
LEMMA ReadAckedKeeps ==
  ASSUME ResponderInv, ReadAcked
  PROVE  ResponderInv'
<1>0. /\ probe \in ProbeStates /\ sock \in SockStates /\ probe.pc = "readsInfo" /\ probe.verdict = "none"
      /\ probe.reported = "none" /\ flow # "opaque" /\ probe.why # "none"
      /\ probe.why \in {"baseline", "first"} => ~probe.writeDone
      /\ probe.writeDone => write.at = "ok"
  BY Zenon DEF ReadAcked, ResponderInv, ResponderTypeOK, ResponderPlace
<1>1. UNCHANGED <<flow, sock, signals, elapsed>>
  BY Zenon DEF ReadAcked
<1>2. sock.acked \in Nat /\ probe.outq \in Nat /\ elapsed \in Nat
  BY <1>0, Zenon DEF ResponderInv, ResponderTypeOK, SockStates, ProbeStates
<1>3. CASE probe.why = "baseline"
  <2> DEFINE a == [probe EXCEPT !.base = sock.acked]
  <2> DEFINE b == [a EXCEPT !.outq = 0]
  <2>1. a \in ProbeStates
    BY <1>0, <1>2, Zenon DEF ProbeStates
  <2>2. b \in ProbeStates
    <3> HIDE DEF a
    <3> QED BY <2>1, Zenon DEF ProbeStates
  <2>3. /\ b.acked = probe.acked /\ b.writeDone = probe.writeDone /\ b.verdict = "none"
        /\ b.reported = "none"
    BY <1>0, Zenon DEF ProbeStates
  <2>4. probe' = ReadsState(b, "first")
    BY <1>3, Zenon DEF ReadAcked, AfterRead
  <2> HIDE DEF b
  <2>5. /\ probe' \in ProbeStates /\ probe'.pc = "readsOutq" /\ probe'.why = "first"
        /\ probe'.acked = probe.acked /\ probe'.writeDone = probe.writeDone /\ probe'.verdict = "none"
        /\ probe'.reported = "none"
    BY <2>2, <2>3, <2>4, ReadsStateFields DEF ReadReasons
  <2>6. ResponderPlace'
    BY <1>0, <1>1, <1>3, <2>5, Zenon DEF ResponderPlace
  <2>7. CountsCoverEnd'
    BY <1>0, <1>1, <1>3, <2>5, Zenon DEF ResponderInv, CountsCoverEnd
  <2>8. DeliveredIsAcknowledged' /\ UnknownIsInTime'
    BY <2>5, Zenon DEF DeliveredIsAcknowledged, UnknownIsInTime
  <2>9. /\ signals' \in [raw : BOOLEAN, shutdown : BOOLEAN] /\ (Shared => ~signals'.raw)
        /\ BodyStarts
    BY <1>1, <1>3, Zenon DEF ResponderInv, ResponderTypeOK, SessionIsSpared, ReadAcked
  <2> QED BY <1>1, <2>5, <2>6, <2>7, <2>8, <2>9, ResponderKeeps, Zenon
<1>4. CASE probe.why # "baseline"
  <2>0. UNCHANGED write
    BY <1>4, Zenon DEF ReadAcked
  <2>1. PICK at \in {"polls", "judges"} :
          /\ probe.why = "written" => at = "judges"
          /\ probe.why # "written" => at = "polls"
    BY Zenon
  <2> DEFINE q == Seen(probe, at)
  <2>2. /\ q \in ProbeStates /\ q.pc = at /\ q.why = "none"
        /\ q.acked = sock.acked /\ q.unacked = probe.outq /\ q.base = probe.base
        /\ q.mark = probe.mark /\ q.writeDone = probe.writeDone /\ q.else = probe.else
        /\ q.verdict = probe.verdict /\ q.reported = probe.reported
    <3>1. at \in ProbePcs
      BY <2>1, Zenon DEF ProbePcs
    <3> QED BY <1>0, <3>1, SeenFields, Zenon
  <2>3. \/ probe.why = "first" /\ probe' = [q EXCEPT !.lastAcked = sock.acked, !.lastProgress = elapsed]
        \/ probe.why = "written" /\ probe' = [q EXCEPT !.mark = sock.acked + probe.outq]
        \/ probe.why = "tick" /\ probe' = q
    <3>1. probe.why \in {"first", "written", "tick"}
      BY <1>0, <1>4, Zenon DEF ProbeStates, ReadReasons
    <3>2. CASE probe.why = "first"
      BY <2>1, <3>2, Zenon DEF ReadAcked, AfterRead
    <3>3. CASE probe.why = "written"
      BY <2>1, <3>3, Zenon DEF ReadAcked, AfterRead
    <3>4. CASE probe.why = "tick"
      BY <2>1, <3>4, Zenon DEF ReadAcked, AfterRead
    <3> QED BY <3>1, <3>2, <3>3, <3>4, Zenon
  <2> HIDE DEF q
  <2>4. /\ probe' \in ProbeStates /\ probe'.pc = at /\ probe'.why = "none"
        /\ probe'.acked = sock.acked /\ probe'.unacked = probe.outq
        /\ probe'.mark = IF probe.why = "written" THEN sock.acked + probe.outq ELSE probe.mark
        /\ probe'.writeDone = probe.writeDone
        /\ probe'.verdict = probe.verdict /\ probe'.reported = probe.reported
    <3>1. CASE probe.why = "first"
      <4> DEFINE a == [q EXCEPT !.lastAcked = sock.acked]
      <4>1. a \in ProbeStates
        BY <1>2, <2>2, Zenon DEF ProbeStates
      <4>2. [a EXCEPT !.lastProgress = elapsed] \in ProbeStates
        <5> HIDE DEF a
        <5> QED BY <1>2, <4>1, Zenon DEF ProbeStates
      <4>3. probe' = [a EXCEPT !.lastProgress = elapsed]
        BY <2>3, <3>1, Zenon
      <4>4. /\ probe'.pc = at /\ probe'.why = "none"
            /\ probe'.acked = sock.acked /\ probe'.unacked = probe.outq
            /\ probe'.mark = probe.mark
            /\ probe'.writeDone = probe.writeDone
            /\ probe'.verdict = probe.verdict /\ probe'.reported = probe.reported
        BY <2>2, <4>3, Zenon DEF ProbeStates
      <4> HIDE DEF a
      <4> QED BY <3>1, <4>2, <4>3, <4>4, Zenon
    <3>2. CASE probe.why = "written"
      BY <1>2, <2>2, <2>3, <3>2 DEF ProbeStates
    <3>3. CASE probe.why = "tick"
      BY <2>2, <2>3, <3>3, Zenon
    <3> QED BY <3>1, <3>2, <3>3, <2>3, Zenon
  <2>5. sock.ends \in Nat /\ probe.mark \in Nat
    BY <1>0, Zenon DEF SockStates, ProbeStates
  <2>6. CountsCoverEnd'
    BY <1>0, <1>1, <1>2, <2>0, <2>1, <2>4, <2>5 DEF ResponderInv, CountsCoverEnd
  <2> QED BY <1>0, <1>1, <2>0, <2>1, <2>4, <2>6, LoopKeeps, Zenon
<1> QED BY <1>3, <1>4, Zenon

\* A read of the socket's state that fails.
LEMMA ReadFailsKeeps ==
  ASSUME ResponderInv, ReadFails
  PROVE  ResponderInv'
<1>1. CASE probe.why \in {"baseline", "first"}
  <2>1. /\ UNCHANGED <<flow, sock, signals, elapsed>> /\ (BodyStarts \/ UNCHANGED write)
        /\ probe' = ResponderAt("awaits")
    BY <1>1, Zenon DEF ReadFails
  <2>2. ResponderAt("awaits") \in ProbeStates
    BY ResponderAtFields DEF ProbePcs
  <2>3. /\ probe'.pc = "awaits" /\ probe'.verdict = "none" /\ probe'.why = "none"
        /\ probe'.reported = "none" /\ probe'.writeDone = FALSE /\ probe'.acked = 0
    BY <2>1, Zenon DEF ResponderAt
  <2>4. ResponderPlace'
    BY <2>3, Zenon DEF ResponderPlace
  <2>5. CountsCoverEnd'
    BY <2>1, <2>3 DEF ResponderInv, ResponderTypeOK, CountsCoverEnd, SockStates
  <2>6. DeliveredIsAcknowledged' /\ UnknownIsInTime'
    BY <2>3, Zenon DEF DeliveredIsAcknowledged, UnknownIsInTime
  <2>7. /\ signals' \in [raw : BOOLEAN, shutdown : BOOLEAN] /\ (Shared => ~signals'.raw)
    BY <2>1, Zenon DEF ResponderInv, ResponderTypeOK, SessionIsSpared
  <2> QED BY <2>1, <2>2, <2>4, <2>5, <2>6, <2>7, ResponderKeeps, Zenon
<1>2. CASE ~(probe.why \in {"baseline", "first"})
  <2>1. AbortsWrite(probe, "stalled") /\ UNCHANGED <<flow, sock, write, elapsed>>
    BY <1>2, Zenon DEF ReadFails
  <2> QED BY <2>1, AbortingKeeps, Zenon
<1> QED BY <1>1, <1>2, Zenon

\* The poll finds the write done, or failed, or the wait over.
LEMMA PollsKeeps ==
  ASSUME ResponderInv, Polls
  PROVE  ResponderInv'
<1>0. /\ probe \in ProbeStates /\ probe.pc = "polls" /\ probe.verdict = "none" /\ probe.why = "none"
      /\ probe.reported = "none" /\ flow # "opaque" /\ (probe.writeDone => write.at = "ok")
  BY Zenon DEF Polls, ResponderInv, ResponderTypeOK, ResponderPlace
<1>1. UNCHANGED <<flow, sock, write, signals, elapsed>>
  BY Zenon DEF Polls
<1>2. CASE probe.writeDone \/ ~Returned
  <2>1. probe' = [probe EXCEPT !.pc = "judges"]
    BY <1>2, Zenon DEF Polls
  <2>2. /\ probe' \in ProbeStates /\ probe'.pc = "judges" /\ probe'.why = "none"
        /\ probe'.acked = probe.acked /\ probe'.unacked = probe.unacked /\ probe'.mark = probe.mark
        /\ probe'.writeDone = probe.writeDone /\ probe'.verdict = "none" /\ probe'.reported = "none"
    BY <1>0, <2>1, Zenon DEF ProbeStates, ProbePcs
  <2>3. CountsCoverEnd'
    BY <1>0, <1>1, <2>2, Zenon DEF ResponderInv, CountsCoverEnd
  <2> QED BY <1>0, <1>1, <2>2, <2>3, LoopKeeps, Zenon
<1>3. CASE ~(probe.writeDone \/ ~Returned)
  <2>0. /\ signals' \in [raw : BOOLEAN, shutdown : BOOLEAN] /\ (Shared => ~signals'.raw)
    BY <1>1, Zenon DEF ResponderInv, ResponderTypeOK, SessionIsSpared
  <2>1. CASE write.at = "panicked"
    <3>1. probe' = Decided("aborted")
      BY <1>3, <2>1, Zenon DEF Polls
    <3> QED BY <1>1, <2>0, <3>1, DecidingKeeps, Zenon DEF Verdicts
  <2>2. CASE write.at = "failed"
    <3>1. probe' = Decided("stalled")
      BY <1>3, <2>2, Zenon DEF Polls
    <3> QED BY <1>1, <2>0, <3>1, DecidingKeeps, Zenon DEF Verdicts
  <2>3. CASE write.at = "ok"
    <3> DEFINE a == [probe EXCEPT !.writeDone = TRUE]
    <3>1. /\ a \in ProbeStates /\ a.verdict = "none" /\ a.reported = "none" /\ a.writeDone = TRUE
          /\ a.acked = probe.acked
      BY <1>0, Zenon DEF ProbeStates
    <3>2. probe' = ReadsState(a, "written")
      BY <1>3, <2>3, Zenon DEF Polls
    <3> HIDE DEF a
    <3>3. /\ probe' \in ProbeStates /\ probe'.pc = "readsOutq" /\ probe'.why = "written"
          /\ probe'.acked = probe.acked
          /\ probe'.writeDone = TRUE /\ probe'.verdict = "none" /\ probe'.reported = "none"
      BY <3>1, <3>2, ReadsStateFields DEF ReadReasons
    <3>4. CountsCoverEnd'
      BY <1>1, <3>3, Zenon DEF ResponderInv, CountsCoverEnd
    <3> QED BY <1>0, <1>1, <2>3, <3>3, <3>4, LoopKeeps, Zenon
  <2> QED BY <1>3, <2>1, <2>2, <2>3, Zenon DEF Returned
<1> QED BY <1>2, <1>3, Zenon

\* The poll judges what it has read: delivered, stalled, or another round.
LEMMA PollJudgesKeeps ==
  ASSUME ResponderInv, PollJudges
  PROVE  ResponderInv'
<1>0. /\ probe \in ProbeStates /\ probe.pc = "judges" /\ probe.verdict = "none" /\ probe.why = "none"
      /\ probe.reported = "none" /\ flow # "opaque" /\ (probe.writeDone => write.at = "ok")
  BY Zenon DEF PollJudges, ResponderInv, ResponderTypeOK, ResponderPlace
<1>1. UNCHANGED <<flow, sock, write, elapsed>>
  BY Zenon DEF PollJudges
<1>2. CASE probe.writeDone /\ DeliveredOn(probe)
  <2>1. probe' = Decided("delivered") /\ UNCHANGED signals
    BY <1>2, Zenon DEF PollJudges
  <2>2. FieldsTyped /\ flow \in FlowKinds /\ Size \in Nat
    BY TypedFields, ResponderAssumption, Zenon DEF ResponderInv, ResponderTypeOK
  <2>3. \/ sock.inside = Size /\ sock.acked >= sock.ends
        \/ flow = "h2" /\ sock.others > 0
    <3>1. SocketCounts /\ CountsCoverEnd /\ write.left = 0
      BY <1>0, <1>2, Zenon DEF ResponderInv, SocketCounts
    <3>2. CASE flow = "h2"
      BY <1>2, <2>2, <3>1, <3>2 DEF SocketCounts, CountsCoverEnd, DeliveredOn, Shared, FieldsTyped
    <3>3. CASE flow # "h2"
      <4>1. sock.inside = Size
        BY <1>0, <2>2, <3>1, <3>3 DEF SocketCounts, FieldsTyped
      <4>2. sock.ends <= sock.acked
        BY <1>0, <1>2, <2>2, <3>1, <3>3 DEF CountsCoverEnd, DeliveredOn, FieldsTyped
      <4> QED BY <2>2, <4>1, <4>2, Zenon DEF FieldsTyped
    <3> QED BY <3>2, <3>3, Zenon
  <2>4. /\ signals' \in [raw : BOOLEAN, shutdown : BOOLEAN] /\ (Shared => ~signals'.raw)
    BY <2>1, Zenon DEF ResponderInv, ResponderTypeOK, SessionIsSpared
  <2> QED BY <1>1, <2>1, <2>3, <2>4, DecidingKeeps, Zenon DEF Verdicts
<1>3. CASE ~(probe.writeDone /\ DeliveredOn(probe))
  <2>1. PICK p : /\ \/ p = probe
                    \/ p = [probe EXCEPT !.lastAcked = probe.acked, !.lastProgress = elapsed]
                 /\ \/ AbortsWrite(p, "stalled")
                    \/ probe' = [p EXCEPT !.pc = "sleeps"] /\ UNCHANGED signals
    <3> DEFINE moved == probe.acked # probe.lastAcked \/ probe.unacked = 0
               p == IF moved THEN [probe EXCEPT !.lastAcked = probe.acked, !.lastProgress = elapsed]
                    ELSE probe
    <3>1. IF elapsed - p.lastProgress >= StallTimeout \/ elapsed >= MaxWait
          THEN AbortsWrite(p, "stalled")
          ELSE probe' = [p EXCEPT !.pc = "sleeps"] /\ UNCHANGED signals
      BY <1>3, Zenon DEF PollJudges
    <3>2. \/ p = probe
          \/ p = [probe EXCEPT !.lastAcked = probe.acked, !.lastProgress = elapsed]
      BY Zenon
    <3> HIDE DEF p
    <3> QED BY <3>1, <3>2, Zenon
  <2>2. /\ p \in ProbeStates /\ p.acked = probe.acked /\ p.unacked = probe.unacked
        /\ p.mark = probe.mark /\ p.writeDone = probe.writeDone /\ p.verdict = "none"
        /\ p.reported = "none" /\ p.why = "none"
    <3>1. CASE p = probe
      BY <1>0, <3>1, Zenon
    <3>2. CASE p = [probe EXCEPT !.lastAcked = probe.acked, !.lastProgress = elapsed]
      <4> DEFINE a == [probe EXCEPT !.lastAcked = probe.acked]
      <4>1. a \in ProbeStates /\ elapsed \in Nat
        BY <1>0, Zenon DEF ProbeStates, ResponderInv, ResponderTypeOK
      <4>2. [a EXCEPT !.lastProgress = elapsed] \in ProbeStates
        <5> HIDE DEF a
        <5> QED BY <4>1, Zenon DEF ProbeStates
      <4>3. p = [a EXCEPT !.lastProgress = elapsed]
        BY <3>2, Zenon
      <4>4. /\ p.acked = probe.acked /\ p.unacked = probe.unacked
            /\ p.mark = probe.mark /\ p.writeDone = probe.writeDone /\ p.verdict = "none"
            /\ p.reported = "none" /\ p.why = "none"
        BY <1>0, <3>2, Zenon DEF ProbeStates
      <4> HIDE DEF a
      <4> QED BY <4>2, <4>3, <4>4, Zenon
    <3> QED BY <2>1, <3>1, <3>2, Zenon
  <2>3. CASE AbortsWrite(p, "stalled")
    BY <1>1, <2>2, <2>3, AbortingKeeps, Zenon
  <2>4. CASE probe' = [p EXCEPT !.pc = "sleeps"] /\ UNCHANGED signals
    <3>1. /\ probe' \in ProbeStates /\ probe'.pc = "sleeps" /\ probe'.why = "none"
          /\ probe'.acked = probe.acked /\ probe'.unacked = probe.unacked /\ probe'.mark = probe.mark
          /\ probe'.writeDone = probe.writeDone /\ probe'.verdict = "none" /\ probe'.reported = "none"
      BY <2>2, <2>4 DEF ProbeStates, ProbePcs
    <3>2. CountsCoverEnd'
      BY <1>0, <1>1, <3>1, Zenon DEF ResponderInv, CountsCoverEnd
    <3> QED BY <1>0, <1>1, <2>4, <3>1, <3>2, LoopKeeps, Zenon
  <2> QED BY <2>1, <2>3, <2>4, Zenon
<1> QED BY <1>2, <1>3, Zenon

\* abort, grace
LEMMA EndsKeep ==
  ASSUME ResponderInv,
         PollSeesShutdown \/ AbortedWriteReturns \/ AbortStreamWrite \/ AwaitWrite \/ AwaitEnds
  PROVE  ResponderInv'
<1>0. /\ probe \in ProbeStates /\ signals \in [raw : BOOLEAN, shutdown : BOOLEAN]
      /\ (Shared => ~signals.raw) /\ sock \in SockStates /\ write \in WriteStates
  BY Zenon DEF ResponderInv, ResponderTypeOK, SessionIsSpared
<1>1. CASE PollSeesShutdown
  BY <1>1, AbortingKeeps, Zenon DEF PollSeesShutdown
<1>2. CASE AbortedWriteReturns
  <2>1. probe.else \in {"stalled", "aborted"}
    BY <1>0, <1>2, Zenon DEF AbortedWriteReturns, ResponderInv, ResponderPlace, ProbeStates
  <2>2. PICK v \in {"stalled", "aborted"} : probe' = Decided(v)
    BY <1>2, <2>1, Zenon DEF AbortedWriteReturns
  <2> QED BY <1>0, <1>2, <2>2, DecidingKeeps, Zenon DEF AbortedWriteReturns, Verdicts
<1>3. CASE AbortStreamWrite
  <2>1. UNCHANGED <<flow, sock, write, signals, elapsed>>
    BY <1>3, Zenon DEF AbortStreamWrite
  <2>2. CASE probe.pc = "aborting" /\ probe' = [probe EXCEPT !.pc = "closing"]
    <3>1. /\ probe' \in ProbeStates /\ probe'.pc = "closing" /\ probe'.why = probe.why
          /\ probe'.acked = probe.acked /\ probe'.unacked = probe.unacked /\ probe'.mark = probe.mark
          /\ probe'.writeDone = probe.writeDone /\ probe'.verdict = probe.verdict
          /\ probe'.reported = probe.reported /\ probe'.else = probe.else
      BY <1>0, <2>2 DEF ProbeStates, ProbePcs
    <3>2. ResponderPlace'
      BY <2>1, <2>2, <3>1, Zenon DEF ResponderInv, ResponderPlace
    <3>3. CountsCoverEnd'
      BY <2>1, <2>2, <3>1, Zenon DEF ResponderInv, CountsCoverEnd
    <3>4. DeliveredIsAcknowledged' /\ UnknownIsInTime'
      BY <2>1, <3>1, Zenon DEF ResponderInv, DeliveredIsAcknowledged, UnknownIsInTime
    <3> QED BY <1>0, <2>1, <3>1, <3>2, <3>3, <3>4, ResponderKeeps, Zenon
  <2>3. CASE probe.pc = "closing" /\ probe' = Decided(probe.else)
    <3>1. probe.else \in {"stalled", "aborted"}
      BY <1>0, <2>3, Zenon DEF ResponderInv, ResponderPlace, ProbeStates
    <3>2. PICK v \in {"stalled", "aborted"} : probe' = Decided(v)
      BY <2>3, <3>1, Zenon
    <3> QED BY <1>0, <2>1, <3>2, DecidingKeeps, Zenon DEF Verdicts
  <2> QED BY <1>3, <2>2, <2>3, Zenon DEF AbortStreamWrite
<1>4. CASE AwaitWrite
  <2>1. UNCHANGED <<flow, sock, write, elapsed>>
    BY <1>4, Zenon DEF AwaitWrite
  <2>2. CASE Returned /\ probe' = Decided(VerdictFor) /\ UNCHANGED signals
    <3>1. PICK v : v = VerdictFor
      BY Zenon
    <3>2. v \in {"aborted", "stalled", "unknown"} /\ (v = "unknown" => write.at = "ok" /\ ~write.late)
      BY <2>2, <3>1, Zenon DEF VerdictFor, Returned
    <3> QED BY <1>0, <2>1, <2>2, <3>1, <3>2, DecidingKeeps, Zenon DEF Verdicts
  <2>3. ASSUME NEW e \in {"stalled", "aborted"}, probe.pc = "awaits", signals' = AwaitDeadline(signals),
               probe' = [probe EXCEPT !.pc = "graceful", !.else = e]
        PROVE  ResponderInv'
    <3> DEFINE a == [probe EXCEPT !.pc = "graceful"]
    <3>1. a \in ProbeStates
      BY <1>0, Zenon DEF ProbeStates, ProbePcs
    <3>2. [a EXCEPT !.else = e] \in ProbeStates
      <4> HIDE DEF a
      <4> QED BY <3>1, Zenon DEF ProbeStates
    <3>3. probe' = [a EXCEPT !.else = e]
      BY <2>3, Zenon
    <3>4. /\ probe'.pc = "graceful" /\ probe'.why = probe.why
          /\ probe'.acked = probe.acked /\ probe'.unacked = probe.unacked /\ probe'.mark = probe.mark
          /\ probe'.writeDone = probe.writeDone /\ probe'.verdict = probe.verdict
          /\ probe'.reported = probe.reported /\ probe'.else = e
      BY <1>0, <2>3, Zenon DEF ProbeStates
    <3>5. ResponderPlace'
      BY <2>1, <2>3, <3>4, Zenon DEF ResponderInv, ResponderPlace
    <3>6. CountsCoverEnd'
      BY <2>1, <2>3, <3>4, Zenon DEF ResponderInv, CountsCoverEnd
    <3>7. DeliveredIsAcknowledged' /\ UnknownIsInTime'
      BY <2>1, <3>4, Zenon DEF ResponderInv, DeliveredIsAcknowledged, UnknownIsInTime
    <3>8. signals' \in [raw : BOOLEAN, shutdown : BOOLEAN] /\ (Shared => ~signals'.raw)
      BY <1>0, <2>3, Zenon DEF AwaitDeadline, Shared
    <3> HIDE DEF a
    <3> QED BY <2>1, <3>2, <3>3, <3>5, <3>6, <3>7, <3>8, ResponderKeeps, Zenon
  <2> QED BY <1>4, <2>2, <2>3, Zenon DEF AwaitWrite
<1>5. CASE AwaitEnds
  <2>1. PICK v : v = IF Returned /\ probe.else = "stalled" THEN VerdictFor ELSE probe.else
    BY Zenon
  <2>2. probe.else \in {"stalled", "aborted"}
    BY <1>0, <1>5, Zenon DEF AwaitEnds, ResponderInv, ResponderPlace, ProbeStates
  <2>3. v \in {"aborted", "stalled", "unknown"} /\ (v = "unknown" => write.at = "ok" /\ ~write.late)
    BY <2>1, <2>2, Zenon DEF VerdictFor, Returned
  <2>4. probe' = Decided(v) /\ UNCHANGED <<flow, sock, write, signals, elapsed>>
    BY <1>5, <2>1, Zenon DEF AwaitEnds
  <2> QED BY <1>0, <2>3, <2>4, DecidingKeeps, Zenon DEF Verdicts
<1> QED BY <1>1, <1>2, <1>3, <1>4, <1>5, Zenon

\* The verdict is reported.
LEMMA ServeKeeps ==
  ASSUME ResponderInv, Serve
  PROVE  ResponderInv'
<1>0. /\ probe \in ProbeStates /\ probe.pc = "served" /\ probe.verdict # "none" /\ sock \in SockStates
      /\ signals \in [raw : BOOLEAN, shutdown : BOOLEAN] /\ (Shared => ~signals.raw)
  BY Zenon DEF Serve, ResponderInv, ResponderTypeOK, ResponderPlace, SessionIsSpared
<1>1. UNCHANGED <<flow, sock, write, signals, elapsed>>
  BY Zenon DEF Serve
<1>2. PICK v \in Verdicts, w \in Verdicts :
        v = probe.verdict /\ w = IF Blamed(probe.verdict) THEN probe.verdict ELSE "none"
  BY <1>0, Zenon DEF ProbeStates, Verdicts
<1> DEFINE r == ResponderAt("done")
<1> DEFINE a == [r EXCEPT !.verdict = v]
<1>3. r \in ProbeStates
  BY ResponderAtFields, Zenon DEF ProbePcs
<1>4. a \in ProbeStates
  <2> HIDE DEF r
  <2> QED BY <1>3, Zenon DEF ProbeStates
<1>5. [a EXCEPT !.reported = w] \in ProbeStates
  <2> HIDE DEF a
  <2> QED BY <1>4, Zenon DEF ProbeStates
<1>6. probe' = [a EXCEPT !.reported = w]
  BY <1>2, Zenon DEF Serve
<1>7. /\ probe'.pc = "done" /\ probe'.verdict = v /\ probe'.why = "none" /\ probe'.writeDone = FALSE
      /\ probe'.acked = 0
  BY <1>6, Zenon DEF ResponderAt
<1>8. ResponderPlace'
  BY <1>0, <1>2, <1>7, Zenon DEF ResponderPlace
<1>9. CountsCoverEnd'
  BY <1>0, <1>1, <1>7 DEF CountsCoverEnd, SockStates
<1>10. DeliveredIsAcknowledged' /\ UnknownIsInTime'
  BY <1>1, <1>2, <1>7, Zenon DEF ResponderInv, DeliveredIsAcknowledged, UnknownIsInTime
<1> HIDE DEF a
<1> QED BY <1>0, <1>1, <1>5, <1>6, <1>8, <1>9, <1>10, ResponderKeeps, Zenon

\* Every step keeps the invariant.
LEMMA ResponderStep == ResponderInv /\ [ResponderNext]_responderVars => ResponderInv'
<1> SUFFICES ASSUME ResponderInv, [ResponderNext]_responderVars PROVE ResponderInv'
  BY Zenon
<1>1. CASE UNCHANGED responderVars
  <2>1. UNCHANGED <<flow, sock, write, signals, elapsed, probe>>
    BY <1>1, Zenon DEF responderVars
  <2> QED
    BY <2>1 DEF ResponderInv, ResponderTypeOK, SocketCounts, ResponderPlace, CountsCoverEnd,
       DeliveredIsAcknowledged, UnknownIsInTime, SessionIsSpared, Shared
<1> QED
  BY <1>1, NetworkKeeps, StartKeeps, ReadOutqKeeps, ReadAckedKeeps, ReadFailsKeeps, PollsKeeps,
     PollJudgesKeeps, PollTickKeeps, EndsKeep, ServeKeeps, Zenon DEF ResponderNext, ResponderSteps

BlamesFairly ==
    /\ probe.verdict = "none" /\ probe'.verdict \in {"stalled", "unknown", "delivered"} =>
          write.at # "panicked"
    /\ probe'.reported # probe.reported => ~signals.shutdown

\* Aborting a write is no verdict that blames the route by itself.
LEMMA AbortsWriteFairly ==
  ASSUME ResponderInv, NEW p, NEW e, AbortsWrite(p, e), p.writeDone = probe.writeDone, probe.pc # "done",
         probe.verdict = "none"
  PROVE  BlamesFairly
<1>1. probe.reported = "none" /\ (p.writeDone => write.at = "ok")
  BY Zenon DEF ResponderInv, ResponderPlace
<1>2. probe'.reported = "none" /\ (p.writeDone \/ probe'.verdict = "none")
  BY Zenon DEF AbortsWrite, Decided, ResponderAt
<1> QED BY <1>1, <1>2, Zenon DEF BlamesFairly

\* No step reaches a verdict that blames the route because of a panic or of the proxy's own
\* shutdown.
LEMMA StepsBlameFairly ==
  ASSUME ResponderInv, [ResponderNext]_responderVars
  PROVE  [BlamesFairly]_responderVars
<1>0. probe \in ProbeStates /\ ResponderPlace
  BY Zenon DEF ResponderInv, ResponderTypeOK
<1>1. CASE probe' = probe
  BY <1>1, Zenon DEF BlamesFairly
<1>2. CASE RespondStarts
  <2>1. probe.verdict = "none" /\ probe.reported = "none"
    BY <1>0, <1>2, Zenon DEF RespondStarts, ResponderPlace
  <2>2. CASE probe' = ResponderAt("awaits")
    BY <2>1, <2>2, Zenon DEF ResponderAt, BlamesFairly
  <2>3. ASSUME NEW why \in {"first", "baseline"}, probe' = ReadsState(probe, why)
        PROVE  BlamesFairly
    BY <1>0, <2>1, <2>3, ReadsStateFields DEF BlamesFairly, ReadReasons
  <2> QED BY <1>2, <2>2, <2>3, Zenon DEF RespondStarts
<1>3. CASE ReadOutq \/ PollTick
  BY <1>0, <1>3, Zenon DEF ReadOutq, PollTick, BlamesFairly, ReadsState, ProbeStates
<1>4. CASE ReadAcked
  <2>1. probe'.verdict = probe.verdict /\ probe'.reported = probe.reported
    <3>1. probe.why \in {"baseline", "first", "written", "tick"}
      BY <1>0, <1>4, Zenon DEF ReadAcked, ResponderPlace, ProbeStates, ReadReasons
    <3>2. CASE probe.why = "baseline"
      BY <1>0, <1>4, <3>2, Zenon DEF ReadAcked, AfterRead, ReadsState, ProbeStates
    <3>3. CASE probe.why = "first"
      BY <1>0, <1>4, <3>3, Zenon DEF ReadAcked, AfterRead, Seen, ProbeStates
    <3>4. CASE probe.why = "written"
      BY <1>0, <1>4, <3>4, Zenon DEF ReadAcked, AfterRead, Seen, ProbeStates
    <3>5. CASE probe.why = "tick"
      BY <1>0, <1>4, <3>5, Zenon DEF ReadAcked, AfterRead, Seen, ProbeStates
    <3> QED BY <3>1, <3>2, <3>3, <3>4, <3>5, Zenon
  <2> QED BY <2>1, Zenon DEF BlamesFairly
<1>5. CASE ReadFails
  <2>1. probe.verdict = "none" /\ probe.pc # "done" /\ probe.reported = "none"
    BY <1>0, <1>5, Zenon DEF ReadFails, ResponderPlace
  <2>2. CASE probe' = ResponderAt("awaits")
    BY <2>1, <2>2, Zenon DEF BlamesFairly, ResponderAt
  <2> QED BY <1>5, <2>1, <2>2, AbortsWriteFairly, Zenon DEF ReadFails
<1>6. CASE Polls
  <2>1. probe.verdict = "none" /\ probe.reported = "none"
    BY <1>0, <1>6, Zenon DEF Polls, ResponderPlace
  <2>2. CASE probe' = [probe EXCEPT !.pc = "judges"]
    BY <1>0, <2>2, Zenon DEF BlamesFairly, ProbeStates
  <2>3. CASE ~(probe.writeDone \/ ~Returned)
    <3>1. CASE write.at = "panicked"
      BY <1>6, <2>1, <2>3, <3>1, Zenon DEF Polls, Decided, ResponderAt, BlamesFairly
    <3>2. CASE write.at = "failed"
      BY <1>6, <2>1, <2>3, <3>2, Zenon DEF Polls, Decided, ResponderAt, BlamesFairly
    <3>3. CASE write.at = "ok"
      BY <1>0, <1>6, <2>1, <2>3, <3>3, Zenon DEF Polls, ReadsState, ProbeStates, BlamesFairly
    <3> QED BY <2>3, <3>1, <3>2, <3>3, Zenon DEF Returned
  <2> QED BY <1>6, <2>2, <2>3, Zenon DEF Polls
<1>7. CASE PollJudges
  <2>1. probe.verdict = "none" /\ probe.reported = "none" /\ probe.pc = "judges"
        /\ (probe.writeDone => write.at = "ok")
    BY <1>0, <1>7, Zenon DEF PollJudges, ResponderPlace
  <2>2. CASE probe.writeDone /\ DeliveredOn(probe)
    BY <1>7, <2>1, <2>2, Zenon DEF PollJudges, BlamesFairly, Decided, ResponderAt
  <2>3. CASE ~(probe.writeDone /\ DeliveredOn(probe))
    <3> DEFINE moved == probe.acked # probe.lastAcked \/ probe.unacked = 0
               p == IF moved THEN [probe EXCEPT !.lastAcked = probe.acked, !.lastProgress = elapsed]
                    ELSE probe
    <3>1. IF elapsed - p.lastProgress >= StallTimeout \/ elapsed >= MaxWait
          THEN AbortsWrite(p, "stalled")
          ELSE probe' = [p EXCEPT !.pc = "sleeps"] /\ UNCHANGED signals
      BY <1>7, <2>3, Zenon DEF PollJudges
    <3>2. p.writeDone = probe.writeDone /\ p.verdict = "none" /\ p.reported = "none"
      BY <1>0, <2>1, Zenon DEF ProbeStates
    <3>3. [p EXCEPT !.pc = "sleeps"].verdict = "none" /\ [p EXCEPT !.pc = "sleeps"].reported = "none"
      BY <1>0, <2>1, Zenon DEF ProbeStates
    <3> HIDE DEF p
    <3> QED BY <2>1, <3>1, <3>2, <3>3, AbortsWriteFairly, Zenon DEF BlamesFairly
  <2> QED BY <2>2, <2>3, Zenon
<1>8. CASE PollSeesShutdown
  <2>1. probe.verdict = "none" /\ probe.pc # "done" /\ AbortsWrite(probe, "aborted")
    BY <1>0, <1>8, Zenon DEF PollSeesShutdown, ResponderPlace
  <2> QED BY <2>1, AbortsWriteFairly, Zenon
<1>9. CASE AbortedWriteReturns
  BY <1>0, <1>9, Zenon DEF AbortedWriteReturns, BlamesFairly, Decided, ResponderAt, ResponderPlace
<1>10. CASE AbortStreamWrite
  BY <1>0, <1>10, Zenon DEF AbortStreamWrite, BlamesFairly, Decided, ResponderAt, ResponderPlace, Returned, ProbeStates
<1>11. CASE AwaitWrite
  <2>1. probe.verdict = "none" /\ probe.reported = "none"
    BY <1>0, <1>11, Zenon DEF AwaitWrite, ResponderPlace
  <2>2. CASE probe' = Decided(VerdictFor)
    BY <2>1, <2>2, Zenon DEF Decided, ResponderAt, VerdictFor, BlamesFairly
  <2>3. CASE probe' # Decided(VerdictFor)
    <3>1. probe'.verdict = probe.verdict /\ probe'.reported = probe.reported
      BY <1>0, <1>11, <2>3, Zenon DEF AwaitWrite, ProbeStates
    <3> QED BY <3>1 DEF BlamesFairly
  <2> QED BY <2>2, <2>3, Zenon
<1>12. CASE AwaitEnds
  <2>1. probe.verdict = "none" /\ probe.reported = "none" /\ probe.else \in {"stalled", "aborted"}
    BY <1>0, <1>12, Zenon DEF AwaitEnds, ResponderPlace, ProbeStates
  <2>2. probe'.reported = "none"
    BY <1>12, Zenon DEF AwaitEnds, Decided, ResponderAt
  <2>3. ASSUME write.at = "panicked" PROVE probe'.verdict = "aborted"
    BY <1>12, <2>1, <2>3, Zenon DEF AwaitEnds, Decided, ResponderAt, VerdictFor, Returned
  <2> QED BY <2>1, <2>2, <2>3, Zenon DEF BlamesFairly
<1>13. CASE Serve
  <2>1. probe.verdict # "none" /\ probe.reported = "none"
    BY <1>0, <1>13, Zenon DEF Serve, ResponderPlace
  <2>2. probe'.reported = IF Blamed(probe.verdict) THEN probe.verdict ELSE "none"
    BY <1>13, Zenon DEF Serve, ResponderAt
  <2> QED BY <2>1, <2>2, Zenon DEF Blamed, BlamesFairly
<1>14. CASE \/ WriteChunk \/ H2Flushes \/ (\E r \in {"ok", "failed", "panicked"} : WriteReturns(r))
            \/ ClientAcks \/ OtherStreamSends \/ ProbeTime \/ ShutDown \/ UNCHANGED responderVars
  <2>1. probe' = probe
    BY <1>14, Zenon DEF WriteChunk, H2Flushes, WriteReturns, ClientAcks, OtherStreamSends, ProbeTime,
       ShutDown, responderVars
  <2> QED BY <1>1, <2>1, Zenon
<1> QED
  BY <1>2, <1>3, <1>4, <1>5, <1>6, <1>7, <1>8, <1>9, <1>10, <1>11, <1>12, <1>13, <1>14, Zenon
  DEF ResponderNext, ResponderSteps

\* VerdictsAreEarned for every size of the response, every wait and every activity of other
\* streams on the socket: delivered means acknowledged, unknown means written in time, no shared
\* socket gets a deadline, and no route is blamed for a panic or a shutdown.
THEOREM VerdictsAlwaysEarned == ResponderSpec => VerdictsAreEarned
<1>1. ResponderInv => DeliveredIsAcknowledged /\ UnknownIsInTime /\ SessionIsSpared
  BY Zenon DEF ResponderInv
<1>2. ResponderInv /\ [ResponderNext]_responderVars => [BlamesFairly]_responderVars
  BY StepsBlameFairly, Zenon
<1>3. [][BlamesFairly]_responderVars => RouteIsNotBlamed
  BY PTL DEF BlamesFairly, RouteIsNotBlamed
<1> QED
  BY <1>1, <1>2, <1>3, ResponderInit_Inv, ResponderStep, PTL DEF ResponderSpec, VerdictsAreEarned
=============================================================================
