------------------------------- MODULE MCMeek -------------------------------
EXTENDS MeekSession

\* Once the client is gone the upstream stays as it is: nobody would see what it does.
MeekNow ==
    \/ ClientWrites \/ PollStarts \/ PollFails \/ ClientCloses \/ Reaped
    \/ \E r \in responses : ResponseArrives(r)
    \/ \E r \in requests : RequestArrives(r) \/ RequestRefused(r)
    \/ \E h \in handlers : RequestServed(h) \/ DownstreamTaken(h) \/ SessionDropped(h)
    \/ \E n \in 1..Len(sessions) : mode = "open" /\ Pumped(n)
    \/ \E n \in 1..Len(sessions), how \in {"eof", "broken"} : mode = "open" /\ UpstreamEnds(n, how)
    \/ \E n \in 1..Len(sessions), how \in {"cut", "broken"} : PumpStops(n, how)

\* Every attempt is answered or times out, and handlers run; the path, the application and the
\* upstream promise nothing.
MCSpec ==
    /\ MeekInit /\ [][MeekNow]_meekVars
    /\ WF_meekVars(PollStarts) /\ WF_meekVars(PollFails \/ \E r \in responses : ResponseArrives(r))
    /\ WF_meekVars(ServerSteps) /\ WF_meekVars(Reaped)
=============================================================================
