------------------------------ MODULE MCTunnels ------------------------------
(***************************************************************************)
(* The tunnels: a meek connection, the sessions of the samizdat reverse    *)
(* portal and a dial over one, the shared session of the twiddle outbound, *)
(* the unbounded outbound's dials and the volunteer's rate limit.          *)
(*                                                                         *)
(* They do not interact: "subject", chosen at the start, says which one a  *)
(* behaviour is about, so that their states add up instead of multiplying. *)
(***************************************************************************)
EXTENDS MCMeek, RateLimit, UnboundedDials, PortalSessions, ReverseConnect, TwiddleTunnel

VARIABLE subject

mcVars == <<subject, meekVars, rateVars, dialsVars, portalVars, connectVars, tunnelVars>>

\* The tags of the reverse outbounds are interchangeable: one first pairing stands for all.
MCInit ==
    /\ subject \in {"meek", "rate", "dials", "sessions", "connect", "twiddle"}
    /\ MeekInit /\ RateInit /\ DialsInit /\ PortalInit /\ ConnectInit /\ TunnelInit
    /\ pairings = [i \in ShortIDs |-> CHOOSE t \in ReverseTags : TRUE]

MeekIsSubject ==
    /\ subject = "meek"
    /\ UNCHANGED <<subject, rateVars, dialsVars, portalVars, connectVars, tunnelVars>>
RateIsSubject ==
    /\ subject = "rate"
    /\ UNCHANGED <<subject, meekVars, dialsVars, portalVars, connectVars, tunnelVars>>
DialsAreSubject ==
    /\ subject = "dials"
    /\ UNCHANGED <<subject, meekVars, rateVars, portalVars, connectVars, tunnelVars>>
SessionsAreSubject ==
    /\ subject = "sessions"
    /\ UNCHANGED <<subject, meekVars, rateVars, dialsVars, connectVars, tunnelVars>>
ConnectIsSubject ==
    /\ subject = "connect"
    /\ UNCHANGED <<subject, meekVars, rateVars, dialsVars, portalVars, tunnelVars>>
TwiddleIsSubject ==
    /\ subject = "twiddle"
    /\ UNCHANGED <<subject, meekVars, rateVars, dialsVars, portalVars, connectVars>>

MCNext ==
    \/ MeekIsSubject /\ MeekNow
    \/ RateIsSubject /\ RateNext
    \/ DialsAreSubject /\ DialsNext
    \/ SessionsAreSubject /\ PortalNext
    \/ ConnectIsSubject /\ ConnectNext
    \/ TwiddleIsSubject /\ TunnelNext

\* Only the meek connection promises to end something; its fairness is that of MCMeek.
MCTunnelsSpec ==
    /\ MCInit /\ [][MCNext]_mcVars
    /\ WF_mcVars(MeekIsSubject /\ PollStarts)
    /\ WF_mcVars(MeekIsSubject /\ (PollFails \/ \E r \in responses : ResponseArrives(r)))
    /\ WF_mcVars(MeekIsSubject /\ ServerSteps) /\ WF_mcVars(MeekIsSubject /\ Reaped)
=============================================================================
