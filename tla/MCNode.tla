------------------------------- MODULE MCNode -------------------------------
(***************************************************************************)
(* A node, its port forwarder and the connections of its inbound.  The     *)
(* node's module says what it asks of the other two; here each is also     *)
(* taken apart: "subject", chosen at the start, says which one a behaviour *)
(* is about, so that their states add up instead of multiplying.           *)
(***************************************************************************)
EXTENDS Node, PortForward, PeerConnections

VARIABLE subject

mcVars == <<subject, nodeVars, forwardVars, peerVars>>

TwoClients == [c \in Conns |-> IF c = "c3" THEN "ip2" ELSE "ip1"]
OneProtocol == <<"TCP">>

\* A gateway is of one kind when it is not the subject.
MCInit ==
    /\ subject \in {"node", "forward", "peers"}
    /\ NodeInit /\ ForwardInit /\ PeerInit
    /\ subject # "forward" => client = "pmp"

NodeIsSubject == subject = "node" /\ UNCHANGED <<subject, forwardVars, peerVars>>
ForwardIsSubject == subject = "forward" /\ UNCHANGED <<subject, nodeVars, peerVars>>
PeersAreSubject == subject = "peers" /\ UNCHANGED <<subject, nodeVars, forwardVars>>

MCNext ==
    \/ NodeIsSubject /\ NodeNext
    \/ ForwardIsSubject /\ ForwardNext
    \/ PeersAreSubject /\ PeerNext

\* Every request of a node has a deadline, so each of its calls returns; nothing is assumed of
\* lantern-cloud, the host or the clients.  The forwarder begins at rest, so that its fairness asks
\* nothing of a behaviour about another.
MCSpec ==
    /\ MCInit /\ [][MCNext]_mcVars
    /\ WF_mcVars(NodeIsSubject /\ NodeSteps)
    /\ ForwardFairness
=============================================================================
