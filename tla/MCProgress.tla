----------------------------- MODULE MCProgress -----------------------------
(***************************************************************************)
(* Components whose goroutines have to come to an end: the identities of   *)
(* the samizdat reverse portal, the bridge's loop and one of its streams,  *)
(* the client info in front of a stream, and the answer to a bandit probe. *)
(*                                                                         *)
(* They do not interact: "subject", chosen at the start, says which one a  *)
(* behaviour is about, so that their states add up instead of multiplying. *)
(* Nothing that is assumed fair is enabled where a component begins, apart *)
(* from the client info, whose fairness names the subject.                 *)
(***************************************************************************)
EXTENDS PortalIdentities, BridgeStream, BridgeLoop, ClientInfoStream, ProbeResponder

VARIABLE subject

mcVars == <<subject, identityVars, streamVars, loopVars, infoVars, responderVars>>

\* What can begin in several ways begins in one when it is not the subject.
MCInit ==
    /\ subject \in {"identities", "stream", "loop", "info", "probe"}
    /\ IdentitiesInit /\ StreamInit /\ LoopInit /\ InfoInit /\ ResponderInit
    /\ subject # "info" => mode = "plain"
    /\ subject # "probe" => flow = "own"

IdentitiesAreSubject ==
    /\ subject = "identities"
    /\ UNCHANGED <<subject, streamVars, loopVars, infoVars, responderVars>>
StreamIsSubject ==
    /\ subject = "stream"
    /\ UNCHANGED <<subject, identityVars, loopVars, infoVars, responderVars>>
LoopIsSubject ==
    /\ subject = "loop"
    /\ UNCHANGED <<subject, identityVars, streamVars, infoVars, responderVars>>
InfoIsSubject ==
    /\ subject = "info"
    /\ UNCHANGED <<subject, identityVars, streamVars, loopVars, responderVars>>
ProbeIsSubject ==
    /\ subject = "probe"
    /\ UNCHANGED <<subject, identityVars, streamVars, loopVars, infoVars>>

MCNext ==
    \/ IdentitiesAreSubject /\ IdentitiesNext
    \/ StreamIsSubject /\ StreamNext
    \/ LoopIsSubject /\ LoopNext
    \/ InfoIsSubject /\ InfoNext
    \/ ProbeIsSubject /\ ResponderNext

\* The fairness of each component, one of its conditions a line.  Since a behaviour has one subject,
\* a condition on one component and a condition on another can be stated together.
MCFairness ==
    /\ WF_mcVars(\/ IdentitiesAreSubject /\ Finish
                 \/ StreamIsSubject /\ HandlerStep
                 \/ LoopIsSubject /\ LoopStep
                 \/ InfoIsSubject /\ ServerStep
                 \/ ProbeIsSubject /\ ResponderSteps)
    /\ WF_mcVars(\/ IdentitiesAreSubject /\ \E c \in Conns : Admit(c) \/ Deliver(c)
                 \/ StreamIsSubject /\ UpStep
                 \/ LoopIsSubject /\ \E d \in Dials : Drains(d)
                 \/ ProbeIsSubject /\ ProbeTime)
    /\ WF_mcVars(\/ StreamIsSubject /\ DownStep
                 \/ LoopIsSubject /\ \E d \in Dials, result \in Sent : DialEnds(d, result)
                 \/ ProbeIsSubject /\ WriteUnblocked /\ WriteReturns("failed"))

MCSpec == MCInit /\ [][MCNext]_mcVars /\ MCFairness
=============================================================================
